---------------------------- MODULE Spec2Model ----------------------------
(***************************************************************************)
(* A model of the template compiler of src/src/compile.rs and of the      *)
(* lexer of src/src/parse.rs.                                             *)
(*                                                                         *)
(* Strings are sequences of one-character strings, so that strip_prefix   *)
(* and the lexer's character tests are computed, not assumed.             *)
(*                                                                         *)
(* A Vec<Lexeme> is held run-length encoded: a sequence of runs           *)
(* [tok, rep], rep >= 1 consecutive copies of the token tok, adjacent     *)
(* runs holding different tokens.  Every vector operation of the code     *)
(* (first, len, push, append, slicing) is defined on that encoding with   *)
(* the meaning it has on the plain vector; the encoding only keeps a      *)
(* 65535-token vector small enough to be explored.                        *)
(***************************************************************************)
EXTENDS Integers, Sequences, FiniteSets, TLC

\* compile.rs:8
RECURSION_LIMIT == 256
\* parse.rs:76
LEXEME_MEMORY_LIMIT == 65535

\* Longest document (in tokens) drawn exhaustively for the compile driver.
MaxDocLen == 3
\* Longest definition body and longest invocation body (in tokens) drawn
\* exhaustively for expand_template.
MaxBodyLen == 2
MaxChildLen == 2
\* Most markup fragments put together into one input of parse_html.
MaxPieces == 4

-----------------------------------------------------------------------------
(* Attribute maps: HashMap<String, String>                                 *)

EmptyMap == [k \in {} |-> <<>>]

\* HashMap::insert: the value of an existing key is overwritten
MapInsert(m, k, v) == [x \in (DOMAIN m) \cup {k} |-> IF x = k THEN v ELSE m[x]]

-----------------------------------------------------------------------------
(* Lexemes: the variants of HtmlElement                                    *)

DocType == [kind |-> "DocType"]
Comment(t) == [kind |-> "Comment", text |-> t]
OpenTag(n, attrs, e) ==
  [kind |-> "OpenTag", name |-> n, attributes |-> attrs, is_empty |-> e]
CloseTag(n) == [kind |-> "CloseTag", name |-> n]
Text(t) == [kind |-> "Text", text |-> t]
Script(attrs, c) == [kind |-> "Script", attributes |-> attrs, contents |-> c]
Style(attrs, c) == [kind |-> "Style", attributes |-> attrs, contents |-> c]
Directive(n, attrs, c) ==
  [kind |-> "Directive", name |-> n, attributes |-> attrs, contents |-> c]

\* the slot name tested by expand_template
CHILDREN == <<"c", "h", "i", "l", "d", "r", "e", "n">>

-----------------------------------------------------------------------------
(* Vec<Lexeme>, run-length encoded                                         *)

RECURSIVE VecLen(_)
\* Vec::len / slice len: the number of tokens
VecLen(v) == IF v = <<>> THEN 0 ELSE v[1].rep + VecLen(Tail(v))

\* slice.first(): only used on a non-empty vector
VecFirst(v) == v[1].tok

RECURSIVE VecAt(_, _)
\* the k-th token, k in 1..VecLen(v)
VecAt(v, k) == IF k <= v[1].rep THEN v[1].tok ELSE VecAt(Tail(v), k - v[1].rep)

\* rep pushes of the same token
VecPushRun(v, t, r) ==
  IF r = 0 THEN v
  ELSE IF v # <<>> /\ v[Len(v)].tok = t
       THEN [v EXCEPT ![Len(v)].rep = @ + r]
       ELSE Append(v, [tok |-> t, rep |-> r])

\* the token put in front of the vector
VecPush_Front(v, t) == <<[tok |-> t, rep |-> 1]>> \o v

\* Vec::push
VecPush(v, t) == VecPushRun(v, t, 1)

\* Vec::append: all tokens of w, in order, after those of v
VecAppend(v, w) ==
  IF w = <<>> THEN v ELSE VecPushRun(v, w[1].tok, w[1].rep) \o Tail(w)

RECURSIVE VecDrop(_, _)
\* &v[k..], k <= VecLen(v)
VecDrop(v, k) ==
  IF k = 0 \/ v = <<>> THEN v
  ELSE IF v[1].rep <= k THEN VecDrop(Tail(v), k - v[1].rep)
       ELSE <<[tok |-> v[1].tok, rep |-> v[1].rep - k]>> \o Tail(v)

RECURSIVE VecTake(_, _)
\* &v[..k], k <= VecLen(v)
VecTake(v, k) ==
  IF k = 0 \/ v = <<>> THEN <<>>
  ELSE IF v[1].rep <= k THEN <<v[1]>> \o VecTake(Tail(v), k - v[1].rep)
       ELSE <<[tok |-> v[1].tok, rep |-> k]>>

\* &v[lo..hi] (0-based, half open), lo <= hi <= VecLen(v)
VecSlice(v, lo, hi) == VecTake(VecDrop(v, lo), hi - lo)

RECURSIVE ToVec(_)
\* the vector holding the tokens of the plain sequence s
ToVec(s) == IF s = <<>> THEN <<>>
            ELSE VecAppend(<<[tok |-> s[1], rep |-> 1]>>, ToVec(Tail(s)))

-----------------------------------------------------------------------------
(* str::strip_prefix, used by expand_template and parse_directive          *)

\* str::strip_prefix('@') succeeds
HasAtPrefix(value) == Len(value) > 0 /\ value[1] = "@"

\* the rest of the string after the '@'
StripAt(value) == Tail(value)

-----------------------------------------------------------------------------
(* parse.rs: characters and strings.  Inputs are ASCII, so that byte       *)
(* offsets and character positions coincide.                               *)

LowerLetters == <<"a", "b", "c", "d", "e", "f", "g", "h", "i", "j", "k", "l", "m", "n", "o", "p", "q", "r", "s", "t", "u", "v", "w", "x", "y", "z">>
UpperLetters == <<"A", "B", "C", "D", "E", "F", "G", "H", "I", "J", "K", "L", "M", "N", "O", "P", "Q", "R", "S", "T", "U", "V", "W", "X", "Y", "Z">>
Digits == {"0", "1", "2", "3", "4", "5", "6", "7", "8", "9"}

\* the elements of a sequence
Range(f) == {f[k] : k \in DOMAIN f}

\* the least element of a non-empty set of numbers
Min(S) == CHOOSE x \in S : \A y \in S : x <= y

\* char::is_ascii_alphanumeric
IsAsciiAlphanumeric(c) ==
  c \in Range(LowerLetters) \cup Range(UpperLetters) \cup Digits

\* char::is_whitespace, on ASCII
IsWhitespace(c) == c \in {" ", "\t", "\n", "\r"}

\* u8::to_ascii_lowercase
ToAsciiLowercase(c) ==
  IF c \in Range(UpperLetters)
  THEN LowerLetters[CHOOSE k \in DOMAIN UpperLetters : UpperLetters[k] = c]
  ELSE c

\* str::eq_ignore_ascii_case
EqIgnoreAsciiCase(a, b) ==
  /\ Len(a) = Len(b)
  /\ \A k \in 1..Len(a) : ToAsciiLowercase(a[k]) = ToAsciiLowercase(b[k])

\* str::starts_with
StartsWith(a, prefix) ==
  Len(a) >= Len(prefix) /\ SubSeq(a, 1, Len(prefix)) = prefix

\* str::ends_with
EndsWith(a, suffix) ==
  Len(a) >= Len(suffix) /\ SubSeq(a, Len(a) - Len(suffix) + 1, Len(a)) = suffix

\* &a[k..]
StrFrom(a, k) == SubSeq(a, k + 1, Len(a))

\* str::trim().is_empty()
TrimIsEmpty(a) == \A k \in 1..Len(a) : IsWhitespace(a[k])

\* the characters of the inputs: printable ASCII and ASCII whitespace
Char ==
  Range(LowerLetters) \cup Range(UpperLetters) \cup Digits
    \cup {" ", "\t", "\n", "\r", "<", ">", "/", "!", "-", "=", "\"", "'", ":",
          "_", "@", ".", ",", ";", "#", "(", ")", "{", "}", "&", "*", "+", "?"}

\* NAME_REGEX: the characters that end a name
NAME_REGEX ==
  {c \in Char : ~(IsAsciiAlphanumeric(c) \/ c \in {":", "_", "-", "@"})}

\* WS_REGEX: the characters that end a run of whitespace
WS_REGEX == {c \in Char : ~IsWhitespace(c)}

VOID_ELEMENTS ==
  { <<"a", "r", "e", "a">>,
    <<"b", "a", "s", "e">>,
    <<"b", "r">>,
    <<"c", "o", "l">>,
    <<"c", "o", "m", "m", "a", "n", "d">>,
    <<"e", "m", "b", "e", "d">>,
    <<"h", "r">>,
    <<"i", "m", "g">>,
    <<"i", "n", "p", "u", "t">>,
    <<"k", "e", "y", "g", "e", "n">>,
    <<"l", "i", "n", "k">>,
    <<"m", "e", "t", "a">>,
    <<"p", "a", "r", "a", "m">>,
    <<"s", "o", "u", "r", "c", "e">>,
    <<"t", "r", "a", "c", "k">>,
    <<"w", "b", "r">> }

-----------------------------------------------------------------------------
(* parse.rs: the parsers.  A MaybeParse is NoParse (None) or a record      *)
(* [ok, val, rest, off] with ok = TRUE (Some((val, rest, off))).           *)

NoParse == [ok |-> FALSE]
Parsed(val, rest, off) == [ok |-> TRUE, val |-> val, rest |-> rest, off |-> off]

\* parse_until; `condition` is the set of characters the closure accepts
parse_until(i, condition) ==
  LET hits == {k \in 1..Len(i) : i[k] \in condition} IN
  IF hits = {} THEN Parsed(i, <<>>, Len(i))
  ELSE Parsed(SubSeq(i, 1, Min(hits) - 1), StrFrom(i, Min(hits) - 1),
              Min(hits) - 1)

\* parse_until_str: the loop tries the prefixes tail[0..i] for i < tail.len()
parse_until_str(tail_, to_match) ==
  LET hits == {k \in 0..(Len(tail_) - 1) :
                 EndsWith(SubSeq(tail_, 1, k), to_match)} IN
  IF hits = {} THEN NoParse
  ELSE Parsed(SubSeq(tail_, 1, Min(hits) - Len(to_match)),
              StrFrom(tail_, Min(hits) - Len(to_match)),
              Min(hits) - Len(to_match))

\* parse_str
parse_str(i, matches) ==
  IF Len(i) >= Len(matches) /\ EqIgnoreAsciiCase(SubSeq(i, 1, Len(matches)), matches)
  THEN Parsed(SubSeq(i, 1, Len(matches)), StrFrom(i, Len(matches)), Len(matches))
  ELSE NoParse

\* parse_char
parse_char(i, matches) ==
  IF Len(i) > 0 /\ i[1] = matches THEN Parsed(i[1], StrFrom(i, 1), 1) ELSE NoParse

(* A parser is a chain of `let (x, i, o) = f(i)?;` bindings.  The chain is  *)
(* threaded through a MaybeParse c: c.rest is the current `i`, c.off the   *)
(* sum of the offsets so far, c.val the tuple of the values bound so far.  *)
(* NoParse is the early return of a `?` and stays NoParse down the chain.  *)

\* the start of a parser's body
Begin(i) == Parsed(<<>>, i, 0)

\* `let (_, i, o) = p?;`
Skip(c, p) == IF p.ok THEN Parsed(c.val, p.rest, c.off + p.off) ELSE NoParse

\* `let (x, i, o) = p?;`
Take(c, p) ==
  IF p.ok THEN Parsed(Append(c.val, p.val), p.rest, c.off + p.off) ELSE NoParse

\* `if o == 0 { return None; }`
NonEmpty(p) == IF p.off = 0 THEN NoParse ELSE p

\* `let (_, i, o) = parse_str(i, matches)?;`
SkipStr(c, matches) == IF c.ok THEN Skip(c, parse_str(c.rest, matches)) ELSE NoParse

\* `let (_, i, o) = parse_char(i, matches)?;`
SkipChar(c, matches) == IF c.ok THEN Skip(c, parse_char(c.rest, matches)) ELSE NoParse

\* `let (_, i, o) = parse_until(i, condition);`
SkipUntil(c, condition) ==
  IF c.ok THEN Skip(c, parse_until(c.rest, condition)) ELSE NoParse

\* `let (x, i, o) = parse_until(i, condition);`
TakeUntil(c, condition) ==
  IF c.ok THEN Take(c, parse_until(c.rest, condition)) ELSE NoParse

\* `let (_, i, o) = parse_until(i, condition); if o == 0 { return None; }`
SkipSome(c, condition) ==
  IF c.ok THEN Skip(c, NonEmpty(parse_until(c.rest, condition))) ELSE NoParse

\* `let (x, i, o) = parse_until(i, condition); if o == 0 { return None; }`
TakeSome(c, condition) ==
  IF c.ok THEN Take(c, NonEmpty(parse_until(c.rest, condition))) ELSE NoParse

\* `Some((x, i, o1 + ...))` where x is the one value the chain bound
Single(c) == IF c.ok THEN Parsed(c.val[1], c.rest, c.off) ELSE NoParse

\* Option::or_else and Option::unwrap_or_else
OrElse(p, q) == IF p.ok THEN p ELSE q

\* parse_delimited
parse_delimited(i, delim) ==
  LET p1 == SkipChar(Begin(i), delim)
      p2 == TakeUntil(p1, {delim})
      p3 == SkipChar(p2, delim)
  IN Single(p3)

\* index_to_rc
index_to_rc(text, index) ==
  LET newlines == {k \in 1..index : text[k] = "\n"} IN
  IF newlines = {} THEN <<1, 1 + index>>
  ELSE <<1 + Cardinality(newlines),
         1 + (index - (CHOOSE k \in newlines : \A j \in newlines : j <= k))>>

\* `Some((HtmlElement::DocType, i, o1 + o2 + o3 + o4 + o5))`
SomeDocType(c) == IF c.ok THEN Parsed(DocType, c.rest, c.off) ELSE NoParse

\* parse_doctype
parse_doctype(i) ==
  LET p1 == SkipStr(Begin(i), <<"<", "!", "d", "o", "c", "t", "y", "p", "e">>)
      p2 == SkipSome(p1, WS_REGEX)
      p3 == SkipStr(p2, <<"h", "t", "m", "l">>)
      p4 == SkipUntil(p3, WS_REGEX)
      p5 == SkipStr(p4, <<">">>)
  IN SomeDocType(p5)

\* `let (comment, tail, o2) = parse_until_str(tail, "-->")?;`
TakeUntilStr(c, to_match) ==
  IF c.ok THEN Take(c, parse_until_str(c.rest, to_match)) ELSE NoParse

\* `Some((HtmlElement::Comment(comment.into()), tail, o1 + o2 + o3))`
SomeComment(c) == IF c.ok THEN Parsed(Comment(c.val[1]), c.rest, c.off) ELSE NoParse

\* parse_comment
parse_comment(tail_) ==
  LET p1 == SkipStr(Begin(tail_), <<"<", "!", "-", "-">>)
      p2 == TakeUntilStr(p1, <<"-", "-", ">">>)
      p3 == SkipStr(p2, <<"-", "-", ">">>)
  IN SomeComment(p3)

\* `let (value, i, o4) = parse_delimited(i, '\"').or_else(|| parse_delimited(i,
\* '\'')).unwrap_or_else(|| parse_until(i, NAME_REGEX));`
TakeValue(c) ==
  IF c.ok
  THEN Take(c, OrElse(parse_delimited(c.rest, "\""),
                      OrElse(parse_delimited(c.rest, "'"),
                             parse_until(c.rest, NAME_REGEX))))
  ELSE NoParse

\* the closure get_value of parse_attribute
get_value(i) ==
  LET p1 == SkipUntil(Begin(i), WS_REGEX)
      p2 == SkipStr(p1, <<"=">>)
      p3 == SkipUntil(p2, WS_REGEX)
      p4 == TakeValue(p3)
  IN Single(p4)

\* `let (value, i, o3) = get_value().unwrap_or(("", i, 0));`
TakeValueOrEmpty(c) ==
  IF c.ok THEN Take(c, OrElse(get_value(c.rest), Parsed(<<>>, c.rest, 0)))
  ELSE NoParse

\* parse_attribute: val is <<key, value>>
parse_attribute(i) ==
  LET p1 == SkipSome(Begin(i), WS_REGEX)
      p2 == TakeSome(p1, NAME_REGEX)
      p3 == TakeValueOrEmpty(p2)
  IN p3

RECURSIVE AttributeLoop(_, _, _)
\* the body of the `while let` of parse_open_tag for one result of
\* parse_attribute(i)
AttributeStep(p, i, attributes, o3) ==
  IF p.ok
  THEN AttributeLoop(p.rest, MapInsert(attributes, p.val[1], p.val[2]), o3 + p.off)
  ELSE Parsed(attributes, i, o3)

\* the `while let` loop of parse_open_tag: attributes, i and o3 when it ends
AttributeLoop(i, attributes, o3) ==
  AttributeStep(parse_attribute(i), i, attributes, o3)

\* `let mut attributes = HashMap::new(); ... while let ... { ... }`
TakeAttributes(c) ==
  IF c.ok THEN Take(c, AttributeLoop(c.rest, EmptyMap, 0)) ELSE NoParse

\* `match parse_str(i, "/") { Some((_, i, o5)) => (true, i, o5),
\*                            None => (false, i, 0) }`
SlashOrNot(p, i) == IF p.ok THEN Parsed(TRUE, p.rest, p.off) ELSE Parsed(FALSE, i, 0)

\* `let (is_empty, i, o5) = match parse_str(i, "/") { ... };`
TakeSlash(c) ==
  IF c.ok THEN Take(c, SlashOrNot(parse_str(c.rest, <<"/">>), c.rest)) ELSE NoParse

\* no name is a void element
IsVoid_Never(name) == FALSE

\* `VOID_ELEMENTS.contains(&name)`
IsVoid(name) == name \in VOID_ELEMENTS

\* `Some((HtmlElement::OpenTag { name, attributes, is_empty }, i, ...))` with
\* `is_empty || VOID_ELEMENTS.contains(&name)`
SomeOpenTag(c) ==
  IF c.ok
  THEN Parsed(OpenTag(c.val[1], c.val[2], c.val[3] \/ IsVoid(c.val[1])),
              c.rest, c.off)
  ELSE NoParse

\* parse_open_tag
parse_open_tag(i) ==
  LET p1 == SkipStr(Begin(i), <<"<">>)
      p2 == TakeUntil(p1, NAME_REGEX)
      p3 == TakeAttributes(p2)
      p4 == SkipUntil(p3, WS_REGEX)
      p5 == TakeSlash(p4)
      p6 == SkipChar(p5, ">")
  IN SomeOpenTag(p6)

\* `Some((HtmlElement::CloseTag { name }, i, o1 + o2 + o3 + o4))`
SomeCloseTag(c) == IF c.ok THEN Parsed(CloseTag(c.val[1]), c.rest, c.off) ELSE NoParse

\* parse_close_tag
parse_close_tag(i) ==
  LET p1 == SkipStr(Begin(i), <<"<", "/">>)
      p2 == TakeSome(p1, NAME_REGEX)
      p3 == SkipUntil(p2, WS_REGEX)
      p4 == SkipStr(p3, <<">">>)
  IN SomeCloseTag(p4)

\* parse_text
parse_text(i) == parse_until(i, {"<"})

\* `if let Some((HtmlElement::CloseTag { name }, _, _)) = p { name == open_name }`
ClosesName(p, open_name) == p.ok /\ p.val.name = open_name

\* the test that breaks the loop of parse_raw_text
ClosesHere(i, open_name) ==
  StartsWith(i, <<"<", "/">>) /\ ClosesName(parse_close_tag(i), open_name)

RECURSIVE RawTextLoop(_, _, _, _)
\* the body of the while loop of parse_raw_text, after t = parse_text(i)
RawTextStep(t, contents, o2, open_name) ==
  IF ClosesHere(t.rest, open_name)
  THEN Parsed(contents \o t.val, t.rest, o2 + t.off)
  ELSE IF t.val = <<>>
  THEN RawTextLoop(StrFrom(t.rest, 1), (contents \o t.val) \o <<"<">>,
                   o2 + t.off + 1, open_name)
  ELSE RawTextLoop(t.rest, contents \o t.val, o2 + t.off, open_name)

\* the while loop of parse_raw_text: contents, i and o2 when it ends
RawTextLoop(i, contents, o2, open_name) ==
  IF i = <<>> THEN Parsed(contents, i, o2)
  ELSE RawTextStep(parse_text(i), contents, o2, open_name)

\* the end of parse_raw_text for a tag that is not empty:
\* `if open_name != close_name { return None; }` and the result
RawTextEnd(open, body, close) ==
  IF ~close.ok THEN NoParse
  ELSE IF open.val.name # close.val.name THEN NoParse
  ELSE Parsed(<<open.val.name, open.val.attributes, body.val>>, close.rest,
              open.off + (body.off + close.off))

\* `let (close, i, o3) = parse_close_tag(i)?;` after the loop
RawTextClose(open, body) == RawTextEnd(open, body, parse_close_tag(body.rest))

\* parse_raw_text after `let (open, mut i, o1) = parse_open_tag(i)?;`
RawTextOf(open) ==
  IF ~open.ok THEN NoParse
  ELSE IF open.val.is_empty
  THEN Parsed(<<open.val.name, open.val.attributes, <<>>>>, open.rest, open.off + 0)
  ELSE RawTextClose(open, RawTextLoop(open.rest, <<>>, 0, open.val.name))

\* parse_raw_text: val is <<open_name, attributes, contents>>
parse_raw_text(i) == RawTextOf(parse_open_tag(i))

\* the result of parse_style for the result of parse_raw_text
SomeStyle(p) ==
  IF ~p.ok THEN NoParse
  ELSE IF p.val[1] # <<"s", "t", "y", "l", "e">> THEN NoParse
  ELSE Parsed(Style(p.val[2], p.val[3]), p.rest, p.off)

\* parse_style
parse_style(i) == SomeStyle(parse_raw_text(i))

\* the result of parse_script for the result of parse_raw_text
SomeScript(p) ==
  IF ~p.ok THEN NoParse
  ELSE IF p.val[1] # <<"s", "c", "r", "i", "p", "t">> THEN NoParse
  ELSE Parsed(Script(p.val[2], p.val[3]), p.rest, p.off)

\* parse_script
parse_script(i) == SomeScript(parse_raw_text(i))

\* the result of parse_directive for the result of parse_raw_text
SomeDirective(p) ==
  IF ~p.ok THEN NoParse
  ELSE IF HasAtPrefix(p.val[1])
  THEN Parsed(Directive(StripAt(p.val[1]), p.val[2], p.val[3]), p.rest, p.off)
  ELSE NoParse

\* parse_directive
parse_directive(i) == SomeDirective(parse_raw_text(i))

\* `Some((HtmlElement::Text(text), new_i, new_off))`
SomeText(t) == Parsed(Text(t.val), t.rest, t.off)

\* The if/else chain of parse_html that picks the parser by the start of i.
\* For text, parse_html decides afterwards whether to keep the token.
Recognise(i) ==
  IF StartsWith(i, <<"<", "!", "-", "-">>) THEN parse_comment(i)
  ELSE IF StartsWith(i, <<"<", "!">>) THEN parse_doctype(i)
  ELSE IF StartsWith(i, <<"<", "s", "t", "y", "l", "e">>) THEN parse_style(i)
  ELSE IF StartsWith(i, <<"<", "s", "c", "r", "i", "p", "t">>) THEN parse_script(i)
  ELSE IF StartsWith(i, <<"<", "/">>) THEN parse_close_tag(i)
  ELSE IF StartsWith(i, <<"<", "@">>) THEN parse_directive(i)
  ELSE IF StartsWith(i, <<"<">>) THEN parse_open_tag(i)
  ELSE SomeText(parse_text(i))

(* A long input is held with its head folded: the text is `lead` copies of *)
(* LeadUnit followed by a plain string.  LeadUnit is one complete token    *)
(* without a newline; parse_open_tag stops at its '>' and reads nothing    *)
(* after it.                                                               *)
LeadUnit == <<"<", "b", "r", ">">>

\* the start of the folded text, as far as a parser of one token reads
Ahead(lead, text) ==
  IF lead = 0 THEN text
  ELSE IF lead = 1 THEN LeadUnit \o text
  ELSE (LeadUnit \o LeadUnit) \o text

\* index_to_rc on the folded text
index_to_rc_folded(lead, text, index) ==
  IF index <= lead * Len(LeadUnit) THEN <<1, 1 + index>>
  ELSE IF index_to_rc(text, index - lead * Len(LeadUnit))[1] = 1
  THEN <<1, 1 + index>>
  ELSE index_to_rc(text, index - lead * Len(LeadUnit))

\* parse::Error converted into trace::Error by throw_err(kind, offset).into()
throw_err(lead, text, kind, index) ==
  LET rc == index_to_rc_folded(lead, text, index) IN
  [tag |-> "Err", kind |-> "Parsing",
   reason |-> CASE kind = "Illegal" -> "Illegal character encountered"
                [] kind = "UnbalancedTags" -> "Unbalanced open and close tags"
                [] kind = "MemoryLimit" -> "Ran out of memory",
   backtrace |-> <<<<"at line", rc[1], "column", rc[2]>>>>]

-----------------------------------------------------------------------------
(* compile.rs: balanced-span extraction                                    *)

\* the attributes of the tag are left out
Element_NoAttributes(attrs, span) == [attributes |-> EmptyMap, child_span |-> span]

\* the Element struct
Element(attrs, span) == [attributes |-> attrs, child_span |-> span]

RECURSIVE ScanSpan(_, _, _)
\* The for loop of parse_element, a run of equal tokens at a time.  `runs`
\* are the tokens not visited yet, depth and end the loop variables before
\* them.  rep non-empty OpenTags add rep to depth; of rep CloseTags the
\* depth-th one brings depth to 0 and breaks, if there are that many; any
\* other token is looked at with depth unchanged.  end counts the steps that
\* did not break.  The result says how the loop ended: "break", "none"
\* (return None) or "exhausted" (no token left), with the value of end.
ScanSpan(runs, depth, end) ==
  IF runs = <<>> THEN [how |-> "exhausted", end |-> end]
  ELSE LET lm == runs[1].tok
           rep == runs[1].rep
       IN
    IF lm.kind = "OpenTag"
    THEN ScanSpan(Tail(runs), IF ~lm.is_empty THEN depth + rep ELSE depth,
                  end + rep)
    ELSE IF lm.kind = "CloseTag"
    THEN IF 1 <= depth /\ depth <= rep
         THEN [how |-> "break", end |-> end + (depth - 1)]
         ELSE ScanSpan(Tail(runs), depth - rep, end + rep)
    ELSE IF depth = 0
         THEN [how |-> "none", end |-> end]
         ELSE ScanSpan(Tail(runs), depth, end + rep)

\* the terminating close tag is taken into the span
ChildSpan_WithClose(v, end) == VecSlice(v, 1, end)

\* `tail[1..end - 1].to_vec()`
ChildSpan(v, end) == VecSlice(v, 1, end - 1)

\* only the open tag is taken for the span of the element
parse_element_OpenTagOnly(tail) ==
  IF tail = <<>> THEN [kind |-> "None"]
  ELSE IF VecFirst(tail).kind # "OpenTag" THEN [kind |-> "None"]
  ELSE [kind |-> "Some",
        element |-> Element(VecFirst(tail).attributes, <<>>),
        rest |-> VecSlice(tail, 1, VecLen(tail))]

\* parse_element: Some((Element, rest)), None, or a panic of the slice
\* expression &tail[end..] when the loop ran out of tokens (end = len + 1).
parse_element(tail) ==
  IF tail = <<>> THEN [kind |-> "None"]
  ELSE LET lm == VecFirst(tail)
           len == VecLen(tail)
       IN IF lm.kind # "OpenTag" THEN [kind |-> "None"]
          ELSE IF lm.is_empty
          THEN [kind |-> "Some",
                element |-> Element(lm.attributes, <<>>),
                rest |-> VecSlice(tail, 1, len)]
          ELSE LET scan == ScanSpan(tail, 0, 1) IN
               IF scan.how = "none" THEN [kind |-> "None"]
               ELSE IF scan.end > len THEN [kind |-> "Panic"]
               ELSE [kind |-> "Some",
                     element |-> Element(lm.attributes,
                                         ChildSpan(tail, scan.end)),
                     rest |-> VecSlice(tail, scan.end, len)]

-----------------------------------------------------------------------------
(* compile.rs: expansion of one invocation                                 *)

\* One step of the loop over the definition tag's attributes: what the
\* pair (key, value) does to new_attributes.
InsertAttribute(new_attributes, key, value, base_attributes) ==
  IF HasAtPrefix(value)
  THEN LET at_key == StripAt(value) IN
       IF at_key \in DOMAIN base_attributes
       THEN MapInsert(new_attributes, at_key, base_attributes[at_key])
       ELSE new_attributes
  ELSE MapInsert(new_attributes, key, value)

RECURSIVE InsertAll(_, _, _, _)
\* the for loop over `attributes`, visiting its keys in the order `order`
InsertAll(order, attributes, base_attributes, new_attributes) ==
  IF order = <<>> THEN new_attributes
  ELSE InsertAll(Tail(order), attributes, base_attributes,
                 InsertAttribute(new_attributes, Head(order),
                                 attributes[Head(order)], base_attributes))

\* the orders in which a HashMap with key set S may be iterated
IterationOrders(S) ==
  {o \in [1..Cardinality(S) -> S] : \A x \in S : \E j \in DOMAIN o : o[j] = x}

\* The attribute maps the loop can build: a HashMap's iteration order is
\* arbitrary, so there is one outcome per order.
NewAttributes(attributes, base_attributes) ==
  {InsertAll(o, attributes, base_attributes, EmptyMap) :
     o \in IterationOrders(DOMAIN attributes)}

RECURSIVE PushOpenTags(_, _, _, _)
\* rep copies of the definition's OpenTag `element`, each rebuilt and pushed
PushOpenTags(base, element, rep, outs) ==
  IF rep = 0 THEN outs
  ELSE PushOpenTags(base, element, rep - 1,
         {VecPush(o, OpenTag(element.name, na, element.is_empty)) :
            o \in outs, na \in NewAttributes(element.attributes, base.attributes)})

\* the slot emits nothing
AppendChildren_Dropped(o, span, rep) == o

RECURSIVE AppendChildren(_, _, _)
\* rep slot directives in a row: the invocation's child_span rep times
AppendChildren(o, span, rep) ==
  IF rep = 0 THEN o ELSE AppendChildren(VecAppend(o, span), span, rep - 1)

RECURSIVE ExpandRuns(_, _, _)
\* The loop of expand_template over the definition's child_span, one run of
\* equal tokens at a time; outs is the set of values `output` may hold.
ExpandRuns(base, span, outs) ==
  IF span = <<>> THEN outs
  ELSE LET element == span[1].tok
           rep == span[1].rep
           next == IF element.kind = "OpenTag"
                   THEN PushOpenTags(base, element, rep, outs)
                   ELSE IF element.kind = "Directive" /\ element.name = CHILDREN
                   THEN {AppendChildren(o, base.child_span, rep) : o \in outs}
                   ELSE {VecPushRun(o, element, rep) : o \in outs}
       IN ExpandRuns(base, Tail(span), next)

\* expand_template(base, template, &mut output): the values output may hold
\* afterwards
expand_template(base, template, output) ==
  ExpandRuns(base, template.child_span, {output})

-----------------------------------------------------------------------------
(* trace.rs: errors                                                        *)

\* compile_error(reason)
compile_error(reason) ==
  [tag |-> "Err", kind |-> "Compilation", reason |-> reason, backtrace |-> <<>>]

\* Option::ctx(s) on None
OptionCtxNone(s) ==
  [tag |-> "Err", kind |-> "Unknown", reason |-> "Missing expected value",
   backtrace |-> <<>>]

-----------------------------------------------------------------------------
(* State                                                                   *)

VARIABLES
  doc,           \* compile_source: the tokens parse_html returned for the source
  templates,     \* compile_source: the store, name -> Element
  source,        \* compile_source: the working token vector
  i,             \* compile_source: the pass counter of the for loop
  tail,          \* compilation_pass: the slice `source` still to scan
  output,        \* compilation_pass: the tokens emitted so far
  num_expanded,  \* compilation_pass: expansions made in this pass
  pc,            \* "pass": inside the loop of compilation_pass; "done"
  result,        \* what compile_source returned, [tag |-> "none"] before
  base,          \* expand_template: the invocation, an Element
  template,      \* expand_template: the definition, an Element
  out_before,    \* expand_template: `output` when it is called
  expanded,      \* expand_template: `output` when it returns
  xpc,           \* "call" before expand_template runs, "ret" after
  input_lead,    \* parse_html: copies of LeadUnit at the head of the text
  input,         \* parse_html: the text to lex, after those copies
  lex_lead,      \* parse_html: copies of LeadUnit at the head of `i`
  lex_i,         \* parse_html: `i`, the text still to lex, after those copies
  offset,        \* parse_html: the number of characters consumed
  lex_output,    \* parse_html: `output`, the tokens recognised so far
  validation_stack, \* parse_html: names of the open tags not yet closed
  lpc,           \* "loop": inside the while loop of parse_html; "done"
  lex_result,    \* what parse_html returned, [tag |-> "none"] before
  files,         \* the token sequences of the template files, in loading order
  loaded,        \* how many of them with_template_file has been called on
  new_templates, \* parse_templates: the store of the file being read
  tpc,           \* "ready" between calls of with_template_file, "loop"
                 \* inside the loop of parse_templates, "failed", "panicked"
  warnings,      \* parse_templates: the tokens reported on stderr as
                 \* "[WARNING] Unexpected root node", in order
  fs,            \* what directives.rs reads: the files, path -> contents,
                 \* and what the highlighter returns
  serial,        \* what serialize returned, <<>> before
  first,         \* the tokens of the first parse_html, <<>> before
  round,         \* 1 while the source is lexed, 2 while its serialization is
  extracted,     \* what parse_element returned for `tail`, [kind |-> "Call"]
                 \* before it runs
  failure,       \* ctx: the Result or Option the innermost ctx() is called on
  layers,        \* ctx: the descriptions of the ctx() layers passed so far
  forwarded      \* ctx: the value the outermost layer so far returned

compile_vars ==
  <<doc, templates, source, i, tail, output, num_expanded, pc, result>>
expand_vars == <<base, template, out_before, expanded, xpc>>
lex_vars ==
  <<input_lead, input, lex_lead, lex_i, offset, lex_output, validation_stack,
    lpc, lex_result>>
store_vars == <<files, loaded, new_templates, tpc, warnings>>
src_vars == <<fs, serial>>
trip_vars == <<first, round>>
elem_vars == <<extracted>>
ctx_vars == <<failure, layers, forwarded>>
vars ==
  <<compile_vars, expand_vars, lex_vars, store_vars, src_vars, trip_vars,
    elem_vars, ctx_vars>>

\* the variable of a parse_element that is not called on its own
ElemIdle == extracted = [kind |-> "Idle"]

\* the variables of a ctx() that is not called on its own
CtxIdle ==
  /\ failure = [tag |-> "Idle"]
  /\ layers = <<>>
  /\ forwarded = [tag |-> "Idle"]

\* the variables of a serialize that is not run
SerialIdle ==
  /\ fs = <<>>
  /\ serial = <<>>

\* the variables of a round trip that is not run
TripIdle ==
  /\ first = <<>>
  /\ round = 0

\* the variables of a Compiler that loads no template file
StoreIdle ==
  /\ files = <<>>
  /\ loaded = 0
  /\ new_templates = <<>>
  /\ tpc = "idle"
  /\ warnings = <<>>

\* the variables of a parse_html that is not run
LexIdle ==
  /\ input_lead = 0
  /\ input = <<>>
  /\ lex_lead = 0
  /\ lex_i = <<>>
  /\ offset = 0
  /\ lex_output = <<>>
  /\ validation_stack = <<>>
  /\ lpc = "idle"
  /\ lex_result = [tag |-> "none"]

-----------------------------------------------------------------------------
(* compile.rs: one iteration of the while loop of compilation_pass         *)

\* `lm` is an OpenTag and templates.get(name) is Some
IsUsage(lm, tpls) == lm.kind = "OpenTag" /\ lm.name \in DOMAIN tpls

\* the counter is not raised
CountExpansion_Forgotten(n) == n

\* num_expanded += 1
CountExpansion(n) == n + 1

LoopStep ==
  /\ pc = "pass"
  /\ tail # <<>>
  /\ LET lm == VecFirst(tail) IN
     IF IsUsage(lm, templates)
     THEN LET tmp == templates[lm.name]
              parsed == parse_element(tail)
          IN IF parsed.kind = "Some"
             THEN /\ num_expanded' = CountExpansion(num_expanded)
                  /\ output' \in expand_template(parsed.element, tmp, output)
                  /\ tail' = parsed.rest
                  /\ UNCHANGED <<pc, result>>
             ELSE /\ num_expanded' = CountExpansion(num_expanded)
                  /\ pc' = "done"
                  /\ result' = IF parsed.kind = "None"
                               THEN OptionCtxNone(<<"at template usage", lm.name>>)
                               ELSE [tag |-> "Panic"]
                  /\ UNCHANGED <<output, tail>>
     ELSE /\ output' = VecPush(output, lm)
          /\ tail' = VecDrop(tail, 1)
          /\ UNCHANGED <<num_expanded, pc, result>>
  /\ UNCHANGED <<doc, templates, source, i>>
  /\ UNCHANGED expand_vars
  /\ UNCHANGED lex_vars
  /\ UNCHANGED <<store_vars, src_vars, trip_vars, elem_vars, ctx_vars>>

\* a pass with a single expansion taken for a fixed point
FixedPoint_OffByOne(n) == n <= 1

\* `if num_expanded == 0`
FixedPoint(n) == n = 0

\* the size is not looked at
MemoryExceeded_Never(v) == FALSE

\* the limit taken twice as large
MemoryExceeded_Doubled(v) == VecLen(v) >= 2 * LEXEME_MEMORY_LIMIT

\* `>` in place of `>=`
MemoryExceeded_Strict(v) == VecLen(v) > LEXEME_MEMORY_LIMIT

\* `if source.len() >= LEXEME_MEMORY_LIMIT`
MemoryExceeded(v) == VecLen(v) >= LEXEME_MEMORY_LIMIT

\* one pass too many
LastPass_OffByOne(k) == k = RECURSION_LIMIT + 1

\* one pass too few
LastPass_Early(k) == k >= RECURSION_LIMIT - 1

\* `if i == RECURSION_LIMIT`
LastPass(k) == k = RECURSION_LIMIT

(* compile.rs: compilation_pass returns and compile_source finishes the    *)
(* iteration of its for loop                                               *)
PassReturn ==
  /\ pc = "pass"
  /\ tail = <<>>
  /\ source' = output
  /\ IF FixedPoint(num_expanded)
     THEN /\ pc' = "done"
          /\ result' = [tag |-> "Ok"]
          /\ UNCHANGED <<i, tail, output, num_expanded>>
     ELSE IF MemoryExceeded(output)
     THEN /\ pc' = "done"
          /\ result' = compile_error("reached memory limit expanding templates")
          /\ UNCHANGED <<i, tail, output, num_expanded>>
     ELSE IF LastPass(i)
     THEN /\ pc' = "done"
          /\ result' = compile_error("reached recursion limit expanding templates")
          /\ UNCHANGED <<i, tail, output, num_expanded>>
     ELSE /\ i' = i + 1
          /\ tail' = output
          /\ output' = <<>>
          /\ num_expanded' = 0
          /\ UNCHANGED <<pc, result>>
  /\ UNCHANGED <<doc, templates>>
  /\ UNCHANGED expand_vars
  /\ UNCHANGED lex_vars
  /\ UNCHANGED <<store_vars, src_vars, trip_vars, elem_vars, ctx_vars>>

-----------------------------------------------------------------------------
(* Inputs of compile_source: documents as parse_html returns them and      *)
(* stores as parse_templates builds them                                   *)

NameA == <<"a">>
NameB == <<"b">>
NameP == <<"p">>

TextT == Text(<<"t">>)
EmptyTag(n) == OpenTag(n, EmptyMap, TRUE)
Open(n) == OpenTag(n, EmptyMap, FALSE)
Slot == Directive(CHILDREN, EmptyMap, <<>>)

RECURSIVE WellFormed(_, _, _)
\* the well-formed token sequences of exactly n tokens made of the leaf
\* tokens `leaves` and of the non-empty open tags `opens`, each matched by
\* the close tag of its name
WellFormed(n, leaves, opens) ==
  IF n = 0 THEN {<<>>}
  ELSE {<<l>> \o s : l \in leaves, s \in WellFormed(n - 1, leaves, opens)}
       \cup
       UNION {{<<x>> \o s1 \o <<CloseTag(x.name)>> \o s2 :
                 s1 \in WellFormed(k, leaves, opens),
                 s2 \in WellFormed(n - 2 - k, leaves, opens)} :
              k \in 0..(n - 2), x \in opens}

\* every document of at most MaxDocLen tokens over <a/>, text, <a>..</a>, <p>..</p>
SmallDocs ==
  UNION {{ToVec(s) : s \in WellFormed(n, {TextT, EmptyTag(NameA)},
                                           {Open(NameA), Open(NameP)})} :
         n \in 0..MaxDocLen}

\* a store with the single blueprint a, whose body is the token sequence s
StoreA(s) == [n \in {NameA} |-> Element(EmptyMap, ToVec(s))]
\* a store with the blueprints a and b
StoreAB(sa, sb) ==
  [n \in {NameA, NameB} |->
     Element(EmptyMap, ToVec(IF n = NameA THEN sa ELSE sb))]

SmallStores ==
  { [n \in {} |-> Element(EmptyMap, <<>>)],
    StoreA(<<>>),
    StoreA(<<TextT>>),
    StoreA(<<Slot>>),
    StoreA(<<Slot, Slot>>),
    StoreA(<<Open(NameP), Slot, CloseTag(NameP)>>),
    StoreA(<<EmptyTag(NameA)>>),
    StoreA(<<Open(NameA), Slot, CloseTag(NameA)>>),
    StoreAB(<<EmptyTag(NameB)>>, <<TextT>>),
    StoreAB(<<EmptyTag(NameB)>>, <<EmptyTag(NameA)>>),
    StoreAB(<<Open(NameB), EmptyTag(NameA), CloseTag(NameB)>>, <<>>) }

\* n nested invocations <a><a>...</a></a>
Nested(n) == <<[tok |-> Open(NameA), rep |-> n], [tok |-> CloseTag(NameA), rep |-> n]>>
\* n text tokens
Texts(n) == <<[tok |-> TextT, rep |-> n]>>

\* documents and stores at the two limits
LimitInputs ==
  \* nesting peeled one level per pass
  ({Nested(RECURSION_LIMIT - 1), Nested(RECURSION_LIMIT)} \X {StoreA(<<Slot>>)})
  \cup
  \* a blueprint that doubles itself
  {<<ToVec(<<EmptyTag(NameA)>>), StoreA(<<EmptyTag(NameA), EmptyTag(NameA)>>)>>}
  \cup
  \* the largest documents the lexer returns, without and with an invocation
  ({Texts(LEXEME_MEMORY_LIMIT), Texts(LEXEME_MEMORY_LIMIT - 1),
    VecPush(Texts(LEXEME_MEMORY_LIMIT - 1), EmptyTag(NameA))}
     \X {StoreA(<<>>), StoreA(<<TextT>>)})
  \cup
  \* a self-invoking blueprint with the largest body a template file can hold
  {<<ToVec(<<EmptyTag(NameA), EmptyTag(NameA)>>),
     [n \in {NameA} |->
        Element(EmptyMap,
                VecAppend(ToVec(<<EmptyTag(NameA)>>), Texts(LEXEME_MEMORY_LIMIT - 3)))]>>}
  \cup
  \* an invocation of the largest blueprint, reached by pass RECURSION_LIMIT
  \* (and one pass earlier) under tags peeled one level per pass
  {<<<<[tok |-> Open(NameA), rep |-> n], [tok |-> TextT, rep |-> 2],
       [tok |-> EmptyTag(NameB), rep |-> 1], [tok |-> CloseTag(NameA), rep |-> n]>>,
     [x \in {NameA, NameB} |->
        IF x = NameA THEN Element(EmptyMap, ToVec(<<Slot>>))
        ELSE Element(EmptyMap, Texts(LEXEME_MEMORY_LIMIT - 2))]>> :
   n \in {RECURSION_LIMIT - 2, RECURSION_LIMIT - 1}}
  \cup
  \* a blueprint with the largest body a template file can hold
  ({ToVec(<<EmptyTag(NameA)>>), ToVec(<<EmptyTag(NameA), TextT>>),
    ToVec(<<EmptyTag(NameA), TextT, TextT>>),
    ToVec(<<EmptyTag(NameA), EmptyTag(NameA)>>),
    ToVec(<<EmptyTag(NameA), EmptyTag(NameA), EmptyTag(NameA)>>)}
     \X {[n \in {NameA} |-> Element(EmptyMap, Texts(LEXEME_MEMORY_LIMIT - 2))]})

\* a document holding every kind of token, none of them naming a blueprint
AllKinds ==
  ToVec(<<DocType, Comment(<<"c">>),
          OpenTag(NameP, [k \in {<<"i", "d">>} |-> <<"@", "x">>], FALSE),
          Slot, Directive(<<"c", "o", "d", "e">>, EmptyMap, <<"x">>),
          Script(EmptyMap, <<"s">>), Style(EmptyMap, <<"s">>), TextT, TextT,
          OpenTag(<<"b", "r">>, EmptyMap, TRUE), CloseTag(NameP)>>)

Inputs == (SmallDocs \X SmallStores) \cup ({AllKinds} \X SmallStores)
          \cup LimitInputs

\* the variables of a call that is not made
ExpandIdle ==
  /\ base = <<>>
  /\ template = <<>>
  /\ out_before = <<>>
  /\ expanded = <<>>
  /\ xpc = "idle"

Init ==
  /\ ExpandIdle
  /\ LexIdle
  /\ StoreIdle
  /\ SerialIdle
  /\ TripIdle
  /\ ElemIdle
  /\ CtxIdle
  /\ \E in \in Inputs :
       /\ doc = in[1]
       /\ source = in[1]
       /\ tail = in[1]
       /\ templates = in[2]
  /\ i = 1
  /\ output = <<>>
  /\ num_expanded = 0
  /\ pc = "pass"
  /\ result = [tag |-> "none"]

Next == LoopStep \/ PassReturn

Spec == Init /\ [][Next]_vars

-----------------------------------------------------------------------------
(* A call of expand_template on its own                                    *)

ExpandCall ==
  /\ xpc = "call"
  /\ expanded' \in expand_template(base, template, out_before)
  /\ xpc' = "ret"
  /\ UNCHANGED <<base, template, out_before>>
  /\ UNCHANGED compile_vars
  /\ UNCHANGED lex_vars
  /\ UNCHANGED <<store_vars, src_vars, trip_vars, elem_vars, ctx_vars>>

KClass == <<"c", "l", "a", "s", "s">>
KTitle == <<"t", "i", "t", "l", "e">>
KId == <<"i", "d">>
Lit == <<"l", "i", "t">>
\* the attribute value "@" followed by the variable name v
VarRef(v) == <<"@">> \o v

\* attribute maps of the OpenTags of a definition body
DefAttrs ==
  { EmptyMap,
    KClass :> Lit,
    KClass :> VarRef(KTitle),
    KTitle :> VarRef(KTitle),
    (KClass :> VarRef(KTitle)) @@ (KId :> VarRef(KClass)),
    (KClass :> Lit) @@ (KId :> VarRef(KClass)),
    (KClass :> VarRef(KTitle)) @@ (KId :> VarRef(KTitle)) }

\* attribute maps of an invocation
BaseAttrs ==
  { EmptyMap,
    KTitle :> <<"H", "i">>,
    KClass :> <<"w">>,
    (KTitle :> <<"H", "i">>) @@ (KClass :> <<"w">>),
    KTitle :> VarRef(KClass) }

\* definition bodies: every well-formed sequence of at most MaxBodyLen tokens
DefBodies ==
  UNION {{ToVec(s) :
            s \in WellFormed(n,
                    {TextT, Slot, Directive(<<"c", "o", "d", "e">>, EmptyMap, <<>>)}
                      \cup {OpenTag(<<"i", "m", "g">>, A, TRUE) : A \in DefAttrs},
                    {OpenTag(NameP, A, FALSE) :
                       A \in {EmptyMap, KClass :> VarRef(KTitle)}})} :
         n \in 0..MaxBodyLen}

\* invocation bodies: every well-formed sequence of at most MaxChildLen tokens
ChildSpans ==
  UNION {{ToVec(s) : s \in WellFormed(n, {TextT, Slot}, {Open(NameP)})} :
         n \in 0..MaxChildLen}

\* the variables of a compile_source that is not run
CompileIdle ==
  /\ doc = <<>>
  /\ templates = <<>>
  /\ source = <<>>
  /\ i = 0
  /\ tail = <<>>
  /\ output = <<>>
  /\ num_expanded = 0
  /\ pc = "idle"
  /\ result = [tag |-> "none"]

InitExpand ==
  /\ CompileIdle
  /\ LexIdle
  /\ StoreIdle
  /\ SerialIdle
  /\ TripIdle
  /\ ElemIdle
  /\ CtxIdle
  /\ base \in {Element(A, c) : A \in BaseAttrs, c \in ChildSpans}
  /\ template \in {Element(EmptyMap, b) : b \in DefBodies}
  /\ out_before \in {<<>>, ToVec(<<TextT>>)}
  /\ expanded = <<>>
  /\ xpc = "call"

NextExpand == ExpandCall

SpecExpand == InitExpand /\ [][NextExpand]_vars

-----------------------------------------------------------------------------
(* parse.rs: parse_html                                                    *)

\* a close tag is accepted when no tag is open
StackRejects_Lenient(stack, name) == stack # <<>> /\ stack[Len(stack)] # name

\* `top.map_or(true, |top| &top != name)` on the result of validation_stack.pop()
StackRejects(stack, name) == stack = <<>> \/ stack[Len(stack)] # name

\* Vec::pop: the vector afterwards
Pop(stack) == IF stack = <<>> THEN <<>> ELSE SubSeq(stack, 1, Len(stack) - 1)

\* the input may end with tags still open
StackIsEmpty_Always(stack) == TRUE

\* `validation_stack.is_empty()`
StackIsEmpty(stack) == stack = <<>>

\* the output is full only when it holds more than LEXEME_MEMORY_LIMIT tokens
OutputFull_Strict(v) == VecLen(v) > LEXEME_MEMORY_LIMIT

\* `output.len() >= LEXEME_MEMORY_LIMIT`
OutputFull(v) == VecLen(v) >= LEXEME_MEMORY_LIMIT

\* `return Err(throw_err(kind, offset))` and the `?` on a failed parse
LexFail(kind) ==
  /\ lpc' = "done"
  /\ lex_result' = throw_err(input_lead, input, kind, offset)
  /\ UNCHANGED <<lex_i, offset, lex_output>>

\* one iteration of the while loop of parse_html, from the result p of the
\* parser picked for lex_i
LexOn(p) ==
  IF ~p.ok
  THEN LexFail("Illegal") /\ UNCHANGED validation_stack
  ELSE IF p.val.kind = "Text" /\ TrimIsEmpty(p.val.text)
  THEN /\ lex_i' = p.rest
       /\ offset' = offset + p.off
       /\ UNCHANGED <<lex_output, validation_stack, lpc, lex_result>>
  ELSE IF OutputFull(lex_output)
  THEN LexFail("MemoryLimit") /\ UNCHANGED validation_stack
  ELSE IF p.val.kind = "CloseTag" /\ StackRejects(validation_stack, p.val.name)
  THEN LexFail("UnbalancedTags") /\ validation_stack' = Pop(validation_stack)
  ELSE /\ validation_stack' =
            IF p.val.kind = "OpenTag" /\ ~p.val.is_empty
            THEN Append(validation_stack, p.val.name)
            ELSE IF p.val.kind = "CloseTag"
            THEN Pop(validation_stack)
            ELSE validation_stack
       /\ lex_output' = VecPush(lex_output, p.val)
       /\ lex_i' = p.rest
       /\ offset' = offset + p.off
       /\ UNCHANGED <<lpc, lex_result>>

\* the result of the parser picked at the head of the folded text: the token
\* is one copy of LeadUnit and what follows it is the other copies and lex_i
OfLead(p) ==
  IF p.ok /\ p.off = Len(LeadUnit) THEN Parsed(p.val, lex_i, p.off) ELSE NoParse

(* one iteration of the while loop of parse_html                           *)
LexStep ==
  /\ lpc = "loop"
  /\ ~(lex_lead = 0 /\ lex_i = <<>>)
  /\ IF lex_lead = 0
     THEN /\ LexOn(Recognise(lex_i))
          /\ UNCHANGED lex_lead
     ELSE /\ LexOn(OfLead(Recognise(Ahead(lex_lead, lex_i))))
          /\ lex_lead' = IF lpc' = "loop" THEN lex_lead - 1 ELSE lex_lead
  /\ UNCHANGED <<input_lead, input>>
  /\ UNCHANGED <<compile_vars, expand_vars, store_vars, src_vars, trip_vars, elem_vars, ctx_vars>>

(* the while loop of parse_html ends and parse_html returns                *)
LexReturn ==
  /\ lpc = "loop"
  /\ lex_lead = 0 /\ lex_i = <<>>
  /\ lpc' = "done"
  /\ lex_result' = IF StackIsEmpty(validation_stack)
                   THEN [tag |-> "Ok", value |-> lex_output]
                   ELSE throw_err(input_lead, input, "UnbalancedTags", offset)
  /\ UNCHANGED <<input_lead, input, lex_lead, lex_i, offset, lex_output,
                 validation_stack>>
  /\ UNCHANGED <<compile_vars, expand_vars, store_vars, src_vars, trip_vars, elem_vars, ctx_vars>>

\* fragments of markup the inputs are put together from
Pieces ==
  { <<"<", "a", ">">>,
    <<"<", "/", "a", ">">>,
    <<"<", "b", ">">>,
    <<"<", "/", "b", ">">>,
    <<"<", "b", "r", ">">>,
    <<"<", "a", "/", ">">>,
    <<"t">>,
    <<" ">>,
    <<"<", "!", "-", "-", "c", "-", "-", ">">> }

RECURSIVE Concat(_)
\* the strings of a sequence put one after the other
Concat(strings) ==
  IF strings = <<>> THEN <<>> ELSE strings[1] \o Concat(Tail(strings))

\* inputs that exercise each parser and each way it fails
OtherInputs ==
  { <<"<", "a", ">", "<", "a", "/", ">", "<", "/", "a", ">">>,
    <<"<", "!", "D", "O", "C", "T", "Y", "P", "E", " ", "h", "t", "m", "l", ">">>,
    <<"<", "!", "d", "o", "c", "t", "y", "p", "e", " ", " ", "h", "t", "m", "l", " ", ">", "t">>,
    <<"<", "!", "d", "o", "c", "t", "y", "p", "e", "h", "t", "m", "l", ">">>,
    <<"<", "!", "D", "O", "C", "T", "Y", "P", "E", " ", "h", "t", "m", "l">>,
    <<"<", "!", "-", "-", " ", "c", " ", "-", "-", ">">>,
    <<"<", "!", "-", "-", "c", "-", "-", ">", "t">>,
    <<"<", "!", "-", "-", "c", "-", "-">>,
    <<"<", "s", "t", "y", "l", "e", ">", "a", "<", "b", "<", "/", "s", "t", "y", "l", "e", ">">>,
    <<"<", "s", "t", "y", "l", "e", ">", "a", "<", "/", "b", ">", "<", "/", "s", "t", "y", "l", "e", ">", "t">>,
    <<"<", "s", "t", "y", "l", "e", "/", ">">>,
    <<"<", "s", "t", "y", "l", "e", ">", "a">>,
    <<"<", "s", "t", "y", "l", "e", "d", ">", "a", "<", "/", "s", "t", "y", "l", "e", "d", ">">>,
    <<"<", "S", "T", "Y", "L", "E", ">", "a", "<", "/", "S", "T", "Y", "L", "E", ">">>,
    <<"<", "s", "t", "y", "l", "e", ">", "a", "<", "/", "s", "c", "r", "i", "p", "t", ">">>,
    <<"<", "s", "c", "r", "i", "p", "t", ">", "a", "<", "b", ">", "c", "<", "/", "s", "c", "r", "i", "p", "t", ">">>,
    <<"<", "s", "c", "r", "i", "p", "t", " ", "s", "r", "c", "=", "x", ">", "<", "/", "s", "c", "r", "i", "p", "t", ">">>,
    <<"<", "s", "c", "r", "i", "p", "t", ">", "a">>,
    <<"<", "@", "c", "o", "d", "e", ">", "a", "<", "b", ">", "<", "/", "@", "c", "o", "d", "e", ">">>,
    <<"<", "@", "c", "o", "d", "e", "/", ">">>,
    <<"<", "@", "c", "o", "d", "e", ">", "a">>,
    <<"<", "@", ">", "a", "<", "/", "@", ">">>,
    <<"<", "a", " ", "k", "=", "\"", "v", "\"", " ", "j", ">", "t", "<", "/", "a", ">">>,
    <<"<", "a", " ", "k", "=", "'", "v", " ", "w", "'", "/", ">">>,
    <<"<", "a", " ", "k", " ", "=", " ", "v", ">", "t", "<", "/", "a", ">">>,
    <<"<", "a", " ", "k", "=", "\"", "v", ">", "t", "<", "/", "a", ">">>,
    <<"<", "a", " ", "k", "=", "v", " ", "k", "=", "w", "/", ">">>,
    <<"<", "a", "\n", " ", "k", ">", "\n", "t", "<", "/", "a", " ", ">">>,
    <<"<", "a", " ", "k", "/", ">">>,
    <<"<", "a", "k", ">", "t", "<", "/", "a", "k", ">">>,
    <<"<", "b", "r", "/", ">">>,
    <<"<", "/", "b", "r", ">">>,
    <<"<", "a", ">", "<", "b", "r", ">", "<", "/", "a", ">">>,
    <<"<", "a", ">", "<", "/", "b", "r", ">", "<", "/", "a", ">">>,
    <<"<", "b", "r", ">", "<", "/", "b", "r", ">">>,
    <<"<", "i", "m", "g", " ", "s", "r", "c", "=", "x", ">">>,
    <<"<", "B", "R", ">">>,
    <<"<", "B", "R", ">", "<", "/", "B", "R", ">">>,
    <<"<", "A", ">", "<", "/", "a", ">">>,
    <<"<", "A", ">", "<", "/", "A", ">">>,
    <<"<", "a", ">", "<", "/", "A", ">">>,
    <<"<", ">">>,
    <<"<", ">", "t", "<", "/", ">">>,
    <<"<", "/", ">">>,
    <<"<", " ", "a", ">">>,
    <<"<", "a">>,
    <<"<", "/", "a">>,
    <<"<", "a", ">", "\n", "<", "b", ">", "\n", "<", "/", "a", ">">>,
    <<"t", "\n", "<", "a", ">", "\n", " ", "<", "/", "b", ">">>,
    <<"<", "a", ">", " ", "<", "b", ">", "t", "<", "/", "b", ">", " ", "<", "/", "a", ">">>,
    <<"<", "a", ">", "<", "b", ">", "<", "a", ">", "<", "/", "a", ">", "<", "/", "b", ">", "<", "/", "a", ">">>,
    <<"<", "a", ">", "<", "a", ">", "<", "/", "a", ">", "<", "/", "a", ">">>,
    <<"<", "a", ">", "t", "<", "b", ">", "t", "<", "b", "r", ">", "t", "<", "/", "b", ">", "t", "<", "/", "a", ">", "t">>,
    <<"<", "p", ":", "x", "_", "y", "-", "z", ">", "t", "<", "/", "p", ":", "x", "_", "y", "-", "z", ">">> }

\* inputs at the token ceiling: <<lead, text>> is `lead` copies of LeadUnit
\* followed by text
CeilingInputs ==
  { <<LEXEME_MEMORY_LIMIT, <<" ">>>>,
    <<LEXEME_MEMORY_LIMIT, <<"t">>>>,
    <<LEXEME_MEMORY_LIMIT, <<"<", "/", "b", ">">>>>,
    <<LEXEME_MEMORY_LIMIT - 1, <<"\n", "<", "a", ">", "<", "/", "a", ">">>>>,
    <<LEXEME_MEMORY_LIMIT - 2, <<"<", "a", ">", "<", "/", "a", ">">>>> }

\* the void element `name` written as an open tag with and without '/', with
\* an attribute, and as a close tag, alone and inside and after other tags
VoidInputs(name) ==
  LET open == (<<"<">> \o name) \o <<">">>
      slashed == (<<"<">> \o name) \o <<"/", ">">>
      spaced == (<<"<">> \o name) \o <<" ", "/", ">">>
      with_attr == (<<"<">> \o name) \o <<" ", "k", "=", "v", ">">>
      close == (<<"<", "/">> \o name) \o <<">">>
      a == <<"<", "a", ">">>
      end_a == <<"<", "/", "a", ">">>
  IN { open, slashed, spaced, with_attr, close,
       (a \o open) \o end_a,
       (a \o slashed) \o end_a,
       (a \o with_attr) \o end_a,
       (a \o close) \o end_a,
       open \o close,
       slashed \o close,
       ((a \o open) \o close) \o end_a,
       (<<"t">> \o open) \o <<"t">>,
       ((a \o a) \o close) \o (end_a \o end_a) }

\* the input is one of OtherInputs or at most MaxPieces fragments in a row
IsLexInput(text) ==
  \/ text \in OtherInputs
  \/ \E n \in 0..MaxPieces : \E fragments \in [1..n -> Pieces] :
       text = Concat(fragments)

InitLex ==
  /\ CompileIdle
  /\ ExpandIdle
  /\ StoreIdle
  /\ SerialIdle
  /\ TripIdle
  /\ ElemIdle
  /\ CtxIdle
  /\ \/ input_lead = 0 /\ IsLexInput(input)
     \/ input_lead = 0 /\ \E name \in VOID_ELEMENTS : input \in VoidInputs(name)
     \/ \E folded \in CeilingInputs :
          input_lead = folded[1] /\ input = folded[2]
  /\ lex_lead = input_lead
  /\ lex_i = input
  /\ offset = 0
  /\ lex_output = <<>>
  /\ validation_stack = <<>>
  /\ lpc = "loop"
  /\ lex_result = [tag |-> "none"]

NextLex == LexStep \/ LexReturn

SpecLex == InitLex /\ [][NextLex]_vars

-----------------------------------------------------------------------------
(* compile.rs: parse_templates and Compiler::with_template_file            *)

\* the entries of m, kept where `other` has the same key
MapExtend_KeepOld(m, other) ==
  [x \in (DOMAIN m) \cup (DOMAIN other) |-> IF x \in DOMAIN m THEN m[x] ELSE other[x]]

\* HashMap::extend: every entry of `other` is inserted into m
MapExtend(m, other) ==
  [x \in (DOMAIN m) \cup (DOMAIN other) |-> IF x \in DOMAIN other THEN other[x] ELSE m[x]]

\* `parse_templates_file(path)?` up to the loop of parse_templates: the
\* tokens parse_html returned for the next file, and an empty new store
WithTemplateFile ==
  /\ tpc = "ready"
  /\ loaded < Len(files)
  /\ loaded' = loaded + 1
  /\ tail' = ToVec(files[loaded + 1])
  /\ new_templates' = EmptyMap
  /\ tpc' = "loop"
  /\ UNCHANGED <<files, templates, warnings>>
  /\ UNCHANGED <<doc, source, i, output, num_expanded, pc, result>>
  /\ UNCHANGED <<expand_vars, lex_vars, src_vars, trip_vars, elem_vars, ctx_vars>>

\* the walk ends at the skipped token
SkipToken_Rest(v) == <<>>

\* `tail = &tail[1..]`
SkipToken(v) == VecDrop(v, 1)

\* one iteration of the while loop of parse_templates
TemplatesStep ==
  /\ tpc = "loop"
  /\ tail # <<>>
  /\ LET lm == VecFirst(tail)
         head == parse_element(tail)
     IN IF lm.kind = "OpenTag" /\ ~lm.is_empty
        THEN IF head.kind = "Some"
             THEN /\ new_templates' = MapInsert(new_templates, lm.name, head.element)
                  /\ tail' = head.rest
                  /\ UNCHANGED <<tpc, warnings>>
             ELSE /\ tpc' = IF head.kind = "None" THEN "failed" ELSE "panicked"
                  /\ UNCHANGED <<new_templates, tail, warnings>>
        ELSE /\ tail' = SkipToken(tail)
             /\ warnings' = IF lm.kind = "Comment" THEN warnings
                            ELSE Append(warnings, lm)
             /\ UNCHANGED <<new_templates, tpc>>
  /\ UNCHANGED <<files, loaded, templates>>
  /\ UNCHANGED <<doc, source, i, output, num_expanded, pc, result>>
  /\ UNCHANGED <<expand_vars, lex_vars, src_vars, trip_vars, elem_vars, ctx_vars>>

\* `Ok(new_templates)` and `self.templates.extend(templates)`
TemplatesReturn ==
  /\ tpc = "loop"
  /\ tail = <<>>
  /\ templates' = MapExtend(templates, new_templates)
  /\ tpc' = "ready"
  /\ UNCHANGED <<files, loaded, new_templates, tail, warnings>>
  /\ UNCHANGED <<doc, source, i, output, num_expanded, pc, result>>
  /\ UNCHANGED <<expand_vars, lex_vars, src_vars, trip_vars, elem_vars, ctx_vars>>

\* the number of template files loaded one after the other
MaxFiles == 2

\* an open tag <n k="v">
OpenWith(n, v) == OpenTag(n, MapInsert(EmptyMap, <<"k">>, v), FALSE)

\* the tokens of well-formed template files: definitions of a and b, some
\* defined twice, with tags of the same and of other names nested in them,
\* and comments, text and empty tags between them
TemplateSources ==
  { <<>>,
    <<TextT>>,
    <<Open(NameA), CloseTag(NameA)>>,
    <<Open(NameB), TextT, CloseTag(NameB)>>,
    <<Comment(<<"c">>), Open(NameA), Slot, CloseTag(NameA), EmptyTag(NameB)>>,
    <<Open(NameA), Open(NameB), TextT, CloseTag(NameB), CloseTag(NameA)>>,
    <<Open(NameA), Open(NameA), CloseTag(NameA), TextT, CloseTag(NameA)>>,
    <<OpenWith(NameA, <<"1">>), TextT, CloseTag(NameA),
      OpenWith(NameA, <<"2">>), EmptyTag(NameB), CloseTag(NameA)>>,
    <<Open(NameA), TextT, CloseTag(NameA), TextT,
      Open(NameB), Open(NameA), CloseTag(NameA), CloseTag(NameB)>>,
    <<Open(NameB), Open(NameP), CloseTag(NameP), Open(NameP), CloseTag(NameP),
      CloseTag(NameB), Open(NameA), EmptyTag(NameA), CloseTag(NameA)>>,
    <<EmptyTag(NameA), Open(NameA), CloseTag(NameA), Open(NameA), Slot, Slot,
      CloseTag(NameA)>>,
    <<DocType, Open(NameA), TextT, CloseTag(NameA), Comment(<<"c">>),
      Script(EmptyMap, <<"s">>), Style(EmptyMap, <<"s">>), Slot, TextT,
      EmptyTag(NameP), Open(NameB), CloseTag(NameB)>> }

InitStore ==
  /\ ExpandIdle
  /\ LexIdle
  /\ SerialIdle
  /\ TripIdle
  /\ ElemIdle
  /\ CtxIdle
  /\ doc = <<>>
  /\ source = <<>>
  /\ i = 0
  /\ output = <<>>
  /\ num_expanded = 0
  /\ pc = "idle"
  /\ result = [tag |-> "none"]
  /\ templates = EmptyMap
  /\ tail = <<>>
  /\ \E n \in 1..MaxFiles : files \in [1..n -> TemplateSources]
  /\ loaded = 0
  /\ new_templates = EmptyMap
  /\ tpc = "ready"
  /\ warnings = <<>>

NextStore == WithTemplateFile \/ TemplatesStep \/ TemplatesReturn

SpecStore == InitStore /\ [][NextStore]_vars

-----------------------------------------------------------------------------
(* directives.rs: expand_directive; parse.rs: serialize                    *)

None == [ok |-> FALSE]
Some(x) == [ok |-> TRUE, val |-> x]

\* Option::unwrap_or
unwrap_or(o, default) == IF o.ok THEN o.val ELSE default

\* str::trim
Trim(a) ==
  LET kept == {k \in 1..Len(a) : ~IsWhitespace(a[k])}
  IN IF kept = {} THEN <<>>
     ELSE SubSeq(a, Min(kept), CHOOSE k \in kept : \A j \in kept : j <= k)

\* "<!-- -->"
FALLBACK == <<"<", "!", "-", "-", " ", "-", "-", ">">>

STYLE == <<"s", "t", "y", "l", "e">>
SCRIPT == <<"s", "c", "r", "i", "p", "t">>
CODE == <<"c", "o", "d", "e">>
HREF == <<"h", "r", "e", "f">>
LANG == <<"l", "a", "n", "g">>

\* the names parse_language knows
Languages ==
  { <<"r", "u", "s", "t">>, <<"p", "y", "t", "h", "o", "n">>,
    <<"j", "a", "v", "a", "s", "c", "r", "i", "p", "t">>,
    <<"h", "t", "m", "l">>, <<"c", "s", "s">>, <<"t", "o", "m", "l">> }

\* `attributes.get("href")?` and `std::fs::read_to_string(path).ok()?`
ReadHref(attributes, env) ==
  IF HREF \notin DOMAIN attributes THEN None
  ELSE IF attributes[HREF] \notin DOMAIN env.files THEN None
  ELSE Some(env.files[attributes[HREF]])

\* format!("<style>\n{}\n</style>", file.trim())
style_dir(attributes, env) ==
  IF ReadHref(attributes, env).ok
  THEN Some((<<"<", "s", "t", "y", "l", "e", ">", "\n">>
               \o Trim(ReadHref(attributes, env).val))
            \o <<"\n", "<", "/", "s", "t", "y", "l", "e", ">">>)
  ELSE None

\* format!("<script>\n{}\n</script>", file.trim())
script_dir(attributes, env) ==
  IF ReadHref(attributes, env).ok
  THEN Some((<<"<", "s", "c", "r", "i", "p", "t", ">", "\n">>
               \o Trim(ReadHref(attributes, env).val))
            \o <<"\n", "<", "/", "s", "c", "r", "i", "p", "t", ">">>)
  ELSE None

\* code: the indentation is normalised without failing; then
\* `parse_language(attributes.get("lang")?)?`, then what the highlighter
\* returns for the text, `.ok()?`, wrapped in the code-block markup
code(attributes, contents, env) ==
  IF LANG \notin DOMAIN attributes THEN None
  ELSE IF attributes[LANG] \notin Languages THEN None
  ELSE IF ~env.highlight.ok THEN None
  ELSE Some((<<"<", "d", "i", "v", " ", "c", "l", "a", "s", "s", "=", "\"",
               "c", "o", "d", "e", "-", "b", "l", "o", "c", "k", "\"", ">",
               "\n", "<", "p", "r", "e", ">", "<", "c", "o", "d", "e", ">">>
               \o env.highlight.val)
            \o <<"<", "/", "c", "o", "d", "e", ">", "<", "/", "p", "r", "e",
                 ">", "\n", "<", "/", "d", "i", "v", ">">>)

\* a directive is rendered as its contents
expand_directive_Raw(name, attributes, contents, env) == contents

\* expand_directive
expand_directive(name, attributes, contents, env) ==
  IF name = STYLE THEN unwrap_or(style_dir(attributes, env), FALLBACK)
  ELSE IF name = SCRIPT THEN unwrap_or(script_dir(attributes, env), FALLBACK)
  ELSE IF name = CODE THEN unwrap_or(code(attributes, contents, env), FALLBACK)
  ELSE FALLBACK

\* format!(" {k}") for an empty value, format!(" {k}=\"{v}\"") otherwise
SerializeAttribute(k, v) ==
  IF v = <<>> THEN <<" ">> \o k
  ELSE (((<<" ">> \o k) \o <<"=", "\"">>) \o v) \o <<"\"">>

RECURSIVE JoinInOrder(_, _)
\* the attributes named by the keys `order`, serialized one after the other
JoinInOrder(order, attr) ==
  IF order = <<>> THEN <<>>
  ELSE SerializeAttribute(order[1], attr[order[1]]) \o JoinInOrder(Tail(order), attr)

\* serialize_attributes: the map is iterated in an arbitrary order, so there
\* is one text per order
serialize_attributes(attr) ==
  {JoinInOrder(order, attr) : order \in IterationOrders(DOMAIN attr)}

\* HtmlElement::serialize: the texts it can return for the token lm
HtmlElement_serialize(lm, env) ==
  CASE lm.kind = "DocType" ->
         {<<"<", "!", "D", "O", "C", "T", "Y", "P", "E", " ", "h", "t", "m", "l", ">">>}
    [] lm.kind = "Comment" -> {<<"<", "!", "-", "-", "-", "-", ">">>}
    [] lm.kind = "OpenTag" /\ ~lm.is_empty ->
         {((<<"<">> \o lm.name) \o a) \o <<">">> :
            a \in serialize_attributes(lm.attributes)}
    [] lm.kind = "OpenTag" /\ lm.is_empty ->
         {((<<"<">> \o lm.name) \o a) \o <<"/", ">">> :
            a \in serialize_attributes(lm.attributes)}
    [] lm.kind = "CloseTag" -> {(<<"<", "/">> \o lm.name) \o <<">">>}
    [] lm.kind = "Style" ->
         {(((<<"<", "s", "t", "y", "l", "e">> \o a) \o <<">", "\n">>)
             \o lm.contents) \o <<"\n", "<", "/", "s", "t", "y", "l", "e", ">">> :
            a \in serialize_attributes(lm.attributes)}
    [] lm.kind = "Script" ->
         {(((<<"<", "s", "c", "r", "i", "p", "t">> \o a) \o <<">", "\n">>)
             \o lm.contents)
            \o <<"\n", "<", "/", "s", "c", "r", "i", "p", "t", ">">> :
            a \in serialize_attributes(lm.attributes)}
    [] lm.kind = "Text" -> {lm.text}
    [] lm.kind = "Directive" ->
         {expand_directive(lm.name, lm.attributes, lm.contents, env)}

RECURSIVE JoinSets(_)
\* `.collect::<Vec<_>>().join("")`, for each choice of one text per token
JoinSets(texts) ==
  IF texts = <<>> THEN {<<>>}
  ELSE {a \o b : a \in Head(texts), b \in JoinSets(Tail(texts))}

\* compile.rs serialize: the texts it can return for the tokens v
serialize(v, env) ==
  JoinSets([k \in 1..VecLen(v) |-> HtmlElement_serialize(VecAt(v, k), env)])

\* Compiler::with_src after compile_source_file returned Ok: the tokens are
\* serialized to the text that is written to the file
WithSrc ==
  /\ pc = "done"
  /\ result.tag = "Ok"
  /\ serial' \in serialize(source, fs)
  /\ pc' = "written"
  /\ UNCHANGED <<doc, templates, source, i, tail, output, num_expanded, result>>
  /\ UNCHANGED fs
  /\ UNCHANGED <<expand_vars, lex_vars, store_vars, trip_vars, elem_vars, ctx_vars>>

\* the directives of the inputs: names out of the registry, the slot, and
\* style, script and code with and without the attribute they read
SrcDirectives ==
  { Slot,
    Directive(<<"x">>, EmptyMap, <<"t">>),
    Directive(STYLE, EmptyMap, <<>>),
    Directive(STYLE, MapInsert(EmptyMap, HREF, <<"f">>), <<>>),
    Directive(SCRIPT, MapInsert(EmptyMap, HREF, <<"g">>), <<>>),
    Directive(CODE, EmptyMap, <<" ", "x">>),
    Directive(CODE, MapInsert(EmptyMap, LANG, <<"c">>), <<"x">>),
    Directive(CODE, MapInsert(EmptyMap, LANG, <<"c", "s", "s">>), <<"x", "\n", " ", "y">>) }

\* documents with a directive at the top level, inside a tag, inside an
\* invocation and next to one, and documents without directives
SrcDocs ==
  UNION {{ ToVec(<<d>>),
           ToVec(<<TextT, d, d>>),
           ToVec(<<Open(NameP), d, CloseTag(NameP)>>),
           ToVec(<<Open(NameA), d, CloseTag(NameA)>>),
           ToVec(<<d, EmptyTag(NameA), TextT>>) } : d \in SrcDirectives}
  \cup { AllKinds,
         ToVec(<<OpenTag(NameP, MapInsert(MapInsert(EmptyMap, <<"k">>, <<"v">>),
                                          <<"j">>, <<>>), TRUE)>>) }

\* stores whose definition bodies hold the slot and other directives
SrcStores ==
  { EmptyMap,
    StoreA(<<Slot>>),
    StoreA(<<Directive(<<"x">>, EmptyMap, <<>>), Slot,
             Directive(STYLE, MapInsert(EmptyMap, HREF, <<"f">>), <<>>)>>) }

\* what the directives find: the readable files and the highlighter's result
SrcEnvs ==
  { [files |-> EmptyMap, highlight |-> None],
    [files |-> MapInsert(EmptyMap, <<"f">>, <<" ", "x", "\n">>),
     highlight |-> Some(<<"h">>)],
    [files |-> MapInsert(MapInsert(EmptyMap, <<"f">>, <<"x">>), <<"g">>, <<"y">>),
     highlight |-> None] }

InitSrc ==
  /\ ExpandIdle
  /\ LexIdle
  /\ StoreIdle
  /\ TripIdle
  /\ ElemIdle
  /\ CtxIdle
  /\ doc \in SrcDocs
  /\ source = doc
  /\ tail = doc
  /\ templates \in SrcStores
  /\ i = 1
  /\ output = <<>>
  /\ num_expanded = 0
  /\ pc = "pass"
  /\ result = [tag |-> "none"]
  /\ fs \in SrcEnvs
  /\ serial = <<>>

NextSrc == LoopStep \/ PassReturn \/ WithSrc

SpecSrc == InitSrc /\ [][NextSrc]_vars

-----------------------------------------------------------------------------
(* parse_html, serialize, parse_html again                                 *)

\* the tokens parse_html returned are serialized and the text is given to
\* parse_html
Reserialize ==
  /\ lpc = "done"
  /\ round = 1
  /\ lex_result.tag = "Ok"
  /\ serial' \in serialize(lex_result.value, fs)
  /\ first' = lex_result.value
  /\ round' = 2
  /\ input_lead' = 0
  /\ input' = serial'
  /\ lex_lead' = 0
  /\ lex_i' = serial'
  /\ offset' = 0
  /\ lex_output' = <<>>
  /\ validation_stack' = <<>>
  /\ lpc' = "loop"
  /\ lex_result' = [tag |-> "none"]
  /\ UNCHANGED fs
  /\ UNCHANGED <<compile_vars, expand_vars, store_vars, elem_vars, ctx_vars>>

\* well-formed fragments: matched pairs with text and with a nested pair,
\* a void tag, a comment, text and blank space
Units ==
  { <<"<", "a", ">", "t", "<", "/", "a", ">">>,
    <<"<", "b", ">", "<", "a", ">", "<", "/", "a", ">", "<", "/", "b", ">">>,
    <<"<", "b", "r", ">">>,
    <<"<", "!", "-", "-", "c", "-", "-", ">">>,
    <<"t">>,
    <<" ">> }

\* other well-formed texts: attributes, a doctype, capital letters, a void
\* tag written with '/', comments inside a pair and before text
OtherUnits ==
  { <<"<", "p", " ", "k", "=", "\"", "v", "\"", " ", "j", ">", "t", "<", "/", "p", ">">>,
    <<"<", "i", "m", "g", " ", "s", "r", "c", "=", "'", "x", "'", "/", ">">>,
    <<"<", "i", "m", "g", " ", "s", "r", "c", "=", "x", ">", "t">>,
    <<"<", "!", "D", "O", "C", "T", "Y", "P", "E", " ", "h", "t", "m", "l", ">",
      "<", "a", ">", "<", "/", "a", ">">>,
    <<"<", "A", ">", "<", "/", "A", ">">>,
    <<"<", "h", "r", "/", ">", "\n", "<", "b", "r", " ", "/", ">">>,
    <<"<", "a", ">", "<", "!", "-", "-", "c", "-", "-", ">", "<", "/", "a", ">">>,
    <<"<", "a", ">", "<", "!", "-", "-", " ", "-", " ", "-", "-", ">", "t", "<", "/", "a", ">">>,
    <<"t", " ", "t", "<", "b", "r", ">", " ", "t", "\n">> }

\* the text is one of OtherUnits or at most MaxPieces units in a row
IsTripInput(text) ==
  \/ text \in OtherUnits
  \/ \E n \in 0..MaxPieces :
       \E fragments \in [1..n -> Units] : text = Concat(fragments)

InitTrip ==
  /\ CompileIdle
  /\ ExpandIdle
  /\ StoreIdle
  /\ ElemIdle
  /\ CtxIdle
  /\ input_lead = 0
  /\ IsTripInput(input)
  /\ lex_lead = 0
  /\ lex_i = input
  /\ offset = 0
  /\ lex_output = <<>>
  /\ validation_stack = <<>>
  /\ lpc = "loop"
  /\ lex_result = [tag |-> "none"]
  /\ fs = [files |-> EmptyMap, highlight |-> None]
  /\ serial = <<>>
  /\ first = <<>>
  /\ round = 1

NextTrip == LexStep \/ LexReturn \/ Reserialize

SpecTrip == InitTrip /\ [][NextTrip]_vars

-----------------------------------------------------------------------------
(* A call of parse_element on its own                                      *)

ParseElementCall ==
  /\ extracted.kind = "Call"
  /\ extracted' = parse_element(tail)
  /\ UNCHANGED compile_vars
  /\ UNCHANGED <<expand_vars, lex_vars, store_vars, src_vars, trip_vars, ctx_vars>>

\* an open tag <img k="v"/>
EmptyWith(v) == OpenTag(<<"i", "m", "g">>, MapInsert(EmptyMap, <<"k">>, v), TRUE)

\* well-formed sequences of at most MaxDocLen + 2 tokens
ElementDocs ==
  UNION {WellFormed(n, {TextT, EmptyTag(NameA), EmptyWith(<<"v">>)},
                       {Open(NameA), OpenWith(NameB, <<"1">>)}) :
         n \in 1..(MaxDocLen + 2)}

\* the slices compilation_pass and parse_templates hand to parse_element: a
\* well-formed sequence from one of its OpenTags on
ElementSlices ==
  {ToVec(SubSeq(s, k, Len(s))) :
     <<s, k>> \in {c \in ElementDocs \X (1..(MaxDocLen + 2)) :
                    c[2] <= Len(c[1]) /\ c[1][c[2]].kind = "OpenTag"}}

InitElement ==
  /\ ExpandIdle
  /\ LexIdle
  /\ StoreIdle
  /\ SerialIdle
  /\ TripIdle
  /\ CtxIdle
  /\ doc = <<>>
  /\ templates = <<>>
  /\ source = <<>>
  /\ i = 0
  /\ tail \in ElementSlices
  /\ output = <<>>
  /\ num_expanded = 0
  /\ pc = "idle"
  /\ result = [tag |-> "none"]
  /\ extracted = [kind |-> "Call"]

NextElement == ParseElementCall

SpecElement == InitElement /\ [][NextElement]_vars

-----------------------------------------------------------------------------
(* A call of parse_element on a slice that ends too early                  *)

\* slices that start with a non-empty OpenTag and end before the CloseTag
\* that balances it: the first tokens of a slice of ElementSlices
CutSlices ==
  {ToVec(SubSeq(c[1], c[2], c[3])) :
     c \in {d \in ElementDocs \X (1..(MaxDocLen + 2)) \X (1..(MaxDocLen + 2)) :
              /\ d[2] <= d[3]
              /\ d[3] <= Len(d[1])
              /\ d[1][d[2]].kind = "OpenTag"
              /\ ~d[1][d[2]].is_empty
              /\ \A j \in d[2]..d[3] :
                   Cardinality({m \in d[2]..j : d[1][m].kind = "OpenTag"
                                                  /\ ~d[1][m].is_empty})
                   > Cardinality({m \in d[2]..j : d[1][m].kind = "CloseTag"})}}

InitElementCut ==
  /\ ExpandIdle
  /\ LexIdle
  /\ StoreIdle
  /\ SerialIdle
  /\ TripIdle
  /\ CtxIdle
  /\ doc = <<>>
  /\ templates = <<>>
  /\ source = <<>>
  /\ i = 0
  /\ tail \in CutSlices
  /\ output = <<>>
  /\ num_expanded = 0
  /\ pc = "idle"
  /\ result = [tag |-> "none"]
  /\ extracted = [kind |-> "Call"]

SpecElementCut == InitElementCut /\ [][NextElement]_vars

-----------------------------------------------------------------------------
(* trace.rs: context frames                                                *)

\* the longest chain of ctx() layers around one failure
MaxLayers == 3

\* Error::new
Error_new(kind, reason) ==
  [tag |-> "Err", kind |-> kind, reason |-> reason, backtrace |-> <<>>]

\* impl From<std::io::Error> for Error; an Error converts into itself
IntoError(e) ==
  IF e.tag = "IoErr" THEN Error_new("IO", e.message) ELSE e

\* the layer forwards the error as it received it
ResultCtx_NoFrame(r, s) ==
  IF r.tag = "Ok" THEN r ELSE IntoError(r)

\* ctx on a Result: map_err(into), then push s onto the backtrace
ResultCtx(r, s) ==
  IF r.tag = "Ok" THEN r
  ELSE [IntoError(r) EXCEPT !.backtrace = Append(@, s)]

\* ctx on an Option
OptionCtx(o, s) ==
  IF o.tag = "Some" THEN [tag |-> "Ok"] ELSE OptionCtxNone(s)

\* WithContext::ctx, by the type of the receiver
ctx(v, s) ==
  IF v.tag \in {"Some", "None"} THEN OptionCtx(v, s) ELSE ResultCtx(v, s)

\* the descriptions the layers of compile.rs attach
Descriptions ==
  {"at template usage a", "at template definition a", "in file t",
   "while compiling file f"}

ErrorKinds == {"IO", "Parsing", "Compilation", "Unknown"}

\* the values a ctx() is called on: Ok and Err results (errors that passed
\* no or one layer already), std::io errors, Some and None
Failures ==
  {[tag |-> "Ok"], [tag |-> "Some"], [tag |-> "None"]}
    \cup {[tag |-> "IoErr", message |-> m] : m \in {"not found", "denied"}}
    \cup {[tag |-> "Err", kind |-> k, reason |-> r, backtrace |-> b] :
            k \in ErrorKinds, r \in {"r1", "r2"},
            b \in {<<>>} \cup {<<d>> : d \in Descriptions}}

\* one more layer: `value.ctx(s)` on what the layer below returned
CtxCall ==
  /\ forwarded.tag # "Idle"
  /\ Len(layers) < MaxLayers
  /\ \E s \in Descriptions :
       /\ forwarded' = ctx(forwarded, s)
       /\ layers' = Append(layers, s)
  /\ UNCHANGED failure
  /\ UNCHANGED <<compile_vars, expand_vars, lex_vars, store_vars, src_vars,
                 trip_vars, elem_vars>>

InitCtx ==
  /\ CompileIdle
  /\ ExpandIdle
  /\ LexIdle
  /\ StoreIdle
  /\ SerialIdle
  /\ TripIdle
  /\ ElemIdle
  /\ failure \in Failures
  /\ layers = <<>>
  /\ forwarded = failure

NextCtx == CtxCall

SpecCtx == InitCtx /\ [][NextCtx]_vars

-----------------------------------------------------------------------------
(* Properties of parse_html                                                *)

\* n copies of x
Copies(x, n) == [k \in 1..n |-> x]

RECURSIVE Balance(_, _)
\* Reads the runs left to right from the open names `open`: a non-empty
\* OpenTag opens its name, a CloseTag must name the most recently opened name
\* still open and closes it.  The result says whether every CloseTag did,
\* and which names are still open.
Balance(runs, open) ==
  IF runs = <<>> THEN [ok |-> TRUE, open |-> open]
  ELSE LET tok == runs[1].tok
           n == runs[1].rep
       IN CASE tok.kind = "OpenTag" /\ ~tok.is_empty ->
                 Balance(Tail(runs), open \o Copies(tok.name, n))
            [] tok.kind = "CloseTag" ->
                 IF /\ Len(open) >= n
                    /\ \A k \in (Len(open) - n + 1)..Len(open) : open[k] = tok.name
                 THEN Balance(Tail(runs), SubSeq(open, 1, Len(open) - n))
                 ELSE [ok |-> FALSE, open |-> <<>>]
            [] OTHER -> Balance(Tail(runs), open)

\* the token sequence is well-formed
IsWellFormed(v) == Balance(v, <<>>) = [ok |-> TRUE, open |-> <<>>]

\* C10: every token sequence parse_html returns with Ok is well-formed (each
\* CloseTag names the most recent non-empty OpenTag still unmatched, and no
\* non-empty OpenTag stays unmatched), and whenever the loop of parse_html
\* is about to test its condition, validation_stack holds exactly the names
\* of the non-empty OpenTags of `output` that are still unmatched, oldest
\* first.
C10_LexWellFormed ==
  /\ lpc = "loop" =>
       Balance(lex_output, <<>>) = [ok |-> TRUE, open |-> validation_stack]
  /\ (lpc = "done" /\ lex_result.tag = "Ok") =>
       /\ lex_result.value = lex_output
       /\ IsWellFormed(lex_result.value)

\* parse_html returned Ok for an input with tags of two names nested, void
\* tags and text
C10_Witness ==
  /\ lpc = "done"
  /\ lex_result.tag = "Ok"
  /\ \E j, k \in 1..Len(lex_result.value) :
       /\ j < k
       /\ lex_result.value[j].tok = CloseTag(NameB)
       /\ lex_result.value[k].tok = CloseTag(NameA)
  /\ \E k \in 1..Len(lex_result.value) :
       lex_result.value[k].tok.kind = "OpenTag" /\ lex_result.value[k].tok.is_empty

\* the names of the non-empty OpenTags of `output` not yet closed
OpenNames == Balance(lex_output, <<>>).open

\* the length of the whole input text
InputLen == input_lead * Len(LeadUnit) + Len(input)

\* parse_html returned the tag-balance error and no tokens
IsBalanceError(r) ==
  /\ r.tag = "Err"
  /\ r.kind = "Parsing"
  /\ r.reason = "Unbalanced open and close tags"
  /\ DOMAIN r = {"tag", "kind", "reason", "backtrace"}

\* parse_html returned the memory-limit error and no tokens
IsMemoryError(r) ==
  /\ r.tag = "Err"
  /\ r.kind = "Parsing"
  /\ r.reason = "Ran out of memory"
  /\ DOMAIN r = {"tag", "kind", "reason", "backtrace"}

\* parse_html stopped in front of a close tag that does not name the most
\* recently opened tag still open, or that comes when no tag is open
StoppedAtBadClose ==
  /\ lpc = "done"
  /\ lex_lead = 0
  /\ parse_close_tag(lex_i).ok
  /\ \/ OpenNames = <<>>
     \/ OpenNames[Len(OpenNames)] # parse_close_tag(lex_i).val.name

\* parse_html stopped at the end of the input with a tag still open
StoppedAtEndOpen ==
  /\ lpc = "done"
  /\ lex_lead = 0
  /\ lex_i = <<>>
  /\ OpenNames # <<>>

\* C11 as stated: parse_html fails with the tag-balance error, returning no
\* tokens, at every close tag that does not name the top of the stack or
\* that comes on an empty stack, and at the end of the input when the stack
\* is not empty, the last reported at the offset of the end of the input.
C11_AsStated ==
  /\ StoppedAtBadClose => IsBalanceError(lex_result)
  /\ StoppedAtEndOpen =>
       /\ IsBalanceError(lex_result)
       /\ offset = InputLen
       /\ lex_result.backtrace =
            <<<<"at line", index_to_rc_folded(input_lead, input, InputLen)[1],
                "column", index_to_rc_folded(input_lead, input, InputLen)[2]>>>>

\* C11: as C11_AsStated as long as fewer than LEXEME_MEMORY_LIMIT tokens
\* have been recognised when the close tag is read; a close tag read after
\* that fails with the memory-limit error whatever the stack holds, again
\* returning no tokens.
C11_TagBalanceErrors ==
  /\ (StoppedAtBadClose /\ ~OutputFull(lex_output)) => IsBalanceError(lex_result)
  /\ (StoppedAtBadClose /\ OutputFull(lex_output)) => IsMemoryError(lex_result)
  /\ StoppedAtEndOpen =>
       /\ IsBalanceError(lex_result)
       /\ offset = InputLen
       /\ lex_result.backtrace =
            <<<<"at line", index_to_rc_folded(input_lead, input, InputLen)[1],
                "column", index_to_rc_folded(input_lead, input, InputLen)[2]>>>>

\* parse_html failed with the tag-balance error at a close tag naming another
\* tag than the one open, on the second line of the input
C11_Witness ==
  /\ StoppedAtBadClose
  /\ OpenNames # <<>>
  /\ IsBalanceError(lex_result)
  /\ lex_result.backtrace[1][2] > 1

\* the text starts with an open tag named `name`: '<', the name, and a
\* character that cannot go on the name
StartsOpenTag(text, name) ==
  /\ StartsWith(text, <<"<">> \o name)
  /\ Len(text) > Len(name) + 1
  /\ text[Len(name) + 2] \in {">", "/", " ", "\t", "\n", "\r"}

\* the text starts with the close tag of `name`
StartsCloseTag(text, name) == StartsWith(text, (<<"<", "/">> \o name) \o <<">">>)

\* the last token of a non-empty vector
VecLast(v) == v[Len(v)].tok

\* C12: for each of the 16 void element names, a step of parse_html that
\* recognises an open tag of that name, written with '/' or without, adds an
\* OpenTag of that name with is_empty = TRUE to the output and leaves the
\* validation stack as it is; no void element name is ever on the validation
\* stack; and a step that reads a close tag of that name ends parse_html
\* with an error, whatever the stack holds.
C12_VoidElements ==
  [][\A name \in VOID_ELEMENTS :
       /\ (/\ lpc = "loop"
           /\ lpc' = "loop"
           /\ StartsOpenTag(Ahead(lex_lead, lex_i), name))
          => /\ VecLen(lex_output') = VecLen(lex_output) + 1
             /\ VecLast(lex_output').kind = "OpenTag"
             /\ VecLast(lex_output').name = name
             /\ VecLast(lex_output').is_empty
             /\ validation_stack' = validation_stack
       /\ (lpc = "loop" /\ StartsCloseTag(Ahead(lex_lead, lex_i), name))
          => /\ lpc' = "done"
             /\ lex_result'.tag = "Err"
             /\ DOMAIN lex_result' = {"tag", "kind", "reason", "backtrace"}
       /\ \A k \in 1..Len(validation_stack') : validation_stack'[k] # name
    ]_vars

\* parse_html failed at the close tag of a void element that came right
\* after the open tag of that element, inside an open tag
C12_Witness ==
  /\ lpc = "done"
  /\ lex_result.tag = "Err"
  /\ lex_output # <<>>
  /\ OpenNames # <<>>
  /\ VecLast(lex_output).kind = "OpenTag"
  /\ VecLast(lex_output).is_empty
  /\ VecLast(lex_output).name \in VOID_ELEMENTS
  /\ StartsCloseTag(lex_i, VecLast(lex_output).name)

\* C13: the output of parse_html never holds more than LEXEME_MEMORY_LIMIT
\* (65,535) tokens and no Ok result does; when LEXEME_MEMORY_LIMIT tokens
\* have been recognised and one more token is recognised, parse_html fails
\* with the memory-limit error at that token; and a well-formed input of
\* exactly LEXEME_MEMORY_LIMIT tokens is lexed with Ok and all its tokens.
C13_TokenCeiling ==
  /\ VecLen(lex_output) <= LEXEME_MEMORY_LIMIT
  /\ lex_result.tag = "Ok" => VecLen(lex_result.value) <= LEXEME_MEMORY_LIMIT
  /\ (/\ lpc = "done"
      /\ lex_lead = 0
      /\ VecLen(lex_output) = LEXEME_MEMORY_LIMIT
      /\ lex_i # <<>>
      /\ Recognise(lex_i).ok)
     => IsMemoryError(lex_result)
  /\ (/\ lpc = "done"
      /\ lex_lead = 0
      /\ lex_i = <<>>
      /\ VecLen(lex_output) = LEXEME_MEMORY_LIMIT
      /\ IsWellFormed(lex_output))
     => /\ lex_result = [tag |-> "Ok", value |-> lex_output]
        /\ offset = InputLen

\* parse_html failed with the memory-limit error in front of a text that
\* would have been token number LEXEME_MEMORY_LIMIT + 1
C13_Witness ==
  /\ lpc = "done"
  /\ lex_lead = 0
  /\ VecLen(lex_output) = LEXEME_MEMORY_LIMIT
  /\ Recognise(lex_i).ok
  /\ Recognise(lex_i).val.kind = "Text"
  /\ IsMemoryError(lex_result)

\* parse_html returned Ok with exactly LEXEME_MEMORY_LIMIT tokens, a matched
\* pair of tags among them
C13_WitnessFull ==
  /\ lpc = "done"
  /\ lex_result.tag = "Ok"
  /\ VecLen(lex_result.value) = LEXEME_MEMORY_LIMIT
  /\ lex_result.value[Len(lex_result.value)].tok.kind = "CloseTag"

-----------------------------------------------------------------------------
(* Properties of parse_templates and with_template_file                    *)

\* non-empty OpenTags minus CloseTags among the first k tokens of s
DepthAfter(s, k) ==
  Cardinality({m \in 1..k : s[m].kind = "OpenTag" /\ ~s[m].is_empty})
  - Cardinality({m \in 1..k : s[m].kind = "CloseTag"})

\* the positions of the non-empty OpenTags of s that are inside no other tag
TopLevelDefs(s) ==
  {k \in 1..Len(s) : /\ s[k].kind = "OpenTag"
                     /\ ~s[k].is_empty
                     /\ DepthAfter(s, k - 1) = 0}

\* the position of the CloseTag that balances the top-level OpenTag at k
CloseOf(s, k) ==
  CHOOSE j \in (k + 1)..Len(s) :
    /\ DepthAfter(s, j) = 0
    /\ \A m \in k..(j - 1) : DepthAfter(s, m) > 0

\* the last top-level definition of the name n in s
LastDef(s, n) ==
  CHOOSE k \in TopLevelDefs(s) :
    /\ s[k].name = n
    /\ \A j \in TopLevelDefs(s) : s[j].name = n => j <= k

\* the store the claim describes for one source
StoreOf(s) ==
  [n \in {s[k].name : k \in TopLevelDefs(s)} |->
     Element(s[LastDef(s, n)].attributes,
             ToVec(SubSeq(s, LastDef(s, n) + 1, CloseOf(s, LastDef(s, n)) - 1)))]

RECURSIVE StoreAfter(_)
\* the store the claim describes after the first n files: an entry of a
\* later file replaces the entry of the same name of an earlier one
StoreAfter(n) ==
  IF n = 0 THEN EmptyMap
  ELSE LET before == StoreAfter(n - 1)
           new == StoreOf(files[n])
       IN [x \in (DOMAIN before) \cup (DOMAIN new) |->
             IF x \in DOMAIN new THEN new[x] ELSE before[x]]

\* C14: when parse_templates has read a whole source, its store has one
\* entry for each name of a non-empty OpenTag at the top level of the source
\* and no other entry, and the entry holds the attributes and the balanced
\* child span of the last top-level definition of that name; after
\* with_template_file, the compiler's store holds for every name the entry
\* of the latest file that defines it.  parse_templates never fails on the
\* well-formed tokens parse_html returns.
C14_StoreConstruction ==
  /\ tpc \in {"ready", "loop"}
  /\ (tpc = "loop" /\ tail = <<>>) => new_templates = StoreOf(files[loaded])
  /\ tpc = "ready" => templates = StoreAfter(loaded)

\* two files are loaded; the second defines a again, twice, and the first
\* defined a and b, with a tag nested in the body of a definition whose
\* name has no entry
C14_Witness ==
  /\ tpc = "ready"
  /\ loaded = 2
  /\ NameA \in DOMAIN StoreOf(files[1])
  /\ NameB \in DOMAIN StoreOf(files[1])
  /\ NameP \notin DOMAIN templates
  /\ \E k \in 1..Len(files[1]) : files[1][k] = Open(NameP)
  /\ Cardinality({k \in TopLevelDefs(files[2]) : files[2][k].name = NameA}) = 2
  /\ templates[NameA] # StoreOf(files[1])[NameA]
  /\ templates[NameB] = StoreOf(files[1])[NameB]

-----------------------------------------------------------------------------
(* Properties of serialize                                                 *)

\* the directive's name is not in the registry, or its function fails
IsInert(lm, env) ==
  \/ lm.name \notin {STYLE, SCRIPT, CODE}
  \/ /\ lm.name \in {STYLE, SCRIPT}
     /\ \/ HREF \notin DOMAIN lm.attributes
        \/ lm.attributes[HREF] \notin DOMAIN env.files
  \/ /\ lm.name = CODE
     /\ \/ LANG \notin DOMAIN lm.attributes
        \/ lm.attributes[LANG] \notin Languages
        \/ ~env.highlight.ok

\* the texts of a token when every inert directive is the fallback
InertText(lm, env) ==
  IF lm.kind = "Directive" /\ IsInert(lm, env) THEN {FALLBACK}
  ELSE HtmlElement_serialize(lm, env)

\* C15: compile_source returns Ok for every document that holds Directive
\* tokens, at the top level, inside tags, inside invocations and in
\* definition bodies; serialize has a text for every token sequence
\* compile_source returns; and in the text it returns every Directive whose
\* name is not style, script or code, or whose function fails (attribute
\* missing, file not readable, language unknown, highlighter error), stands
\* as "<!-- -->".
C15_DirectivesInert ==
  /\ result.tag \in {"none", "Ok"}
  /\ pc = "done" => serialize(source, fs) # {}
  /\ pc = "written" =>
       serial \in JoinSets([k \in 1..VecLen(source) |-> InertText(VecAt(source, k), fs)])

\* a text was written for tokens that hold a directive with a name out of
\* the registry and a style directive whose file is not readable, some of
\* them brought by the expansion of an invocation
C15_Witness ==
  /\ pc = "written"
  /\ \E k \in 1..VecLen(source) :
       /\ VecAt(source, k).kind = "Directive"
       /\ VecAt(source, k).name = <<"x">>
  /\ \E k \in 1..VecLen(source) :
       /\ VecAt(source, k).kind = "Directive"
       /\ VecAt(source, k).name = STYLE
       /\ HREF \in DOMAIN VecAt(source, k).attributes
       /\ IsInert(VecAt(source, k), fs)
  /\ VecLen(doc) < VecLen(source)
  /\ serial = ((FALLBACK \o FALLBACK) \o FALLBACK) \o <<"t">>

-----------------------------------------------------------------------------
(* Properties of the round trip                                            *)

\* what structural equality compares: the kind of a token, the name of a
\* tag and the attributes of an open tag
Shape(lm) ==
  CASE lm.kind = "OpenTag" -> <<"OpenTag", lm.name, lm.attributes>>
    [] lm.kind = "CloseTag" -> <<"CloseTag", lm.name>>
    [] OTHER -> <<lm.kind>>

\* the shapes of the tokens of v, in order
ShapeOf(v) == [k \in 1..VecLen(v) |-> Shape(VecAt(v, k))]

\* the text holds a comment
HasComment(text) ==
  \E k \in 1..(Len(text) - 3) : SubSeq(text, k, k + 3) = <<"<", "!", "-", "-">>

\* C16 as stated: for every well-formed input, parse_html returns Ok, and
\* parse_html of the serialization of its tokens returns Ok with tokens of
\* the same kinds, names and attributes in the same order.
C16_AsStated ==
  lpc = "done" =>
    /\ lex_result.tag = "Ok"
    /\ round = 2 => ShapeOf(lex_result.value) = ShapeOf(first)

\* C16 for the well-formed inputs that hold no comment
C16_WithoutComments ==
  (lpc = "done" /\ ~HasComment(input)) =>
    /\ lex_result.tag = "Ok"
    /\ round = 2 => ShapeOf(lex_result.value) = ShapeOf(first)

\* the second parse_html returned the shapes of the first, for an input
\* with a pair, a void tag and text
C16_Witness ==
  /\ lpc = "done"
  /\ round = 2
  /\ lex_result.tag = "Ok"
  /\ ShapeOf(first) = ShapeOf(lex_result.value)
  /\ \E k \in 1..VecLen(first) : VecAt(first, k).kind = "CloseTag"
  /\ \E k \in 1..VecLen(first) : VecAt(first, k).kind = "Text"
  /\ \E k \in 1..VecLen(first) :
       VecAt(first, k).kind = "OpenTag" /\ VecAt(first, k).is_empty

\* the head of the slice is a non-empty OpenTag
AtDefinition(v) == VecFirst(v).kind = "OpenTag" /\ ~VecFirst(v).is_empty

\* C22: parse_templates never fails on the tokens of a lexed source; an
\* iteration of its loop that meets a top-level token other than a
\* non-empty OpenTag goes on with the slice one token shorter and the store
\* as it was, reporting the token with a warning unless it is a comment; and
\* when the slice is exhausted the store has an entry for the name of every
\* top-level non-empty OpenTag of the source, those after skipped tokens as
\* those before.
C22_SkipsAndGoesOn ==
  /\ [](tpc \in {"ready", "loop"})
  /\ [][(tpc = "loop" /\ tail # <<>> /\ ~AtDefinition(tail))
        => /\ tpc' = "loop"
           /\ tail' = VecDrop(tail, 1)
           /\ new_templates' = new_templates
           /\ warnings' = IF VecFirst(tail).kind = "Comment" THEN warnings
                          ELSE Append(warnings, VecFirst(tail))]_vars
  /\ []((tpc = "loop" /\ tail = <<>>)
        => DOMAIN new_templates
             = {files[loaded][k].name : k \in TopLevelDefs(files[loaded])})

\* the loop has walked a source and stored a definition found before and
\* one found after a doctype, a comment, a script, a style, a directive, a
\* text and an empty tag, the comment being the only one without a warning
C22_Witness ==
  /\ tpc = "loop"
  /\ tail = <<>>
  /\ DOMAIN new_templates = {NameA, NameB}
  /\ Len(files[loaded]) > 6
  /\ files[loaded][2] = Open(NameA)
  /\ files[loaded][Len(files[loaded])] = CloseTag(NameB)
  /\ \E k \in 1..Len(files[loaded]) : files[loaded][k].kind = "Comment"
  /\ {warnings[k].kind : k \in 1..Len(warnings)}
       = {"DocType", "Script", "Style", "Directive", "Text", "OpenTag"}

-----------------------------------------------------------------------------
(* Properties of parse_element                                             *)

\* the tokens of v one by one
FlatOf(v) == [k \in 1..VecLen(v) |-> VecAt(v, k)]

\* the position of the first CloseTag of s at which as many CloseTags as
\* non-empty OpenTags have been read
FirstBalance(s) == Min({j \in 1..Len(s) : s[j].kind = "CloseTag" /\ DepthAfter(s, j) = 0})

\* C20: for a slice that starts with an OpenTag and continues a well-formed
\* sequence, parse_element returns Some.  If the OpenTag is empty, the
\* element has its attributes and an empty child_span and the rest is the
\* slice without its first token.  Otherwise, with j the position of the
\* first CloseTag that brings the count of open tags back to zero, the
\* element has the attributes of the OpenTag, child_span is the tokens 2 to
\* j - 1 and the rest is the tokens after j.
C20_BalancedSpan ==
  extracted.kind \notin {"Idle", "Call"} =>
    LET s == FlatOf(tail) IN
    /\ extracted.kind = "Some"
    /\ extracted.element.attributes = s[1].attributes
    /\ IF s[1].is_empty
       THEN /\ extracted.element.child_span = <<>>
            /\ FlatOf(extracted.rest) = Tail(s)
       ELSE /\ FlatOf(extracted.element.child_span) = SubSeq(s, 2, FirstBalance(s) - 1)
            /\ FlatOf(extracted.rest) = SubSeq(s, FirstBalance(s) + 1, Len(s))

\* parse_element returned for a non-empty tag with attributes, a tag nested
\* in its span and tokens after its CloseTag
C20_Witness ==
  /\ extracted.kind = "Some"
  /\ ~VecFirst(tail).is_empty
  /\ VecFirst(tail).attributes # EmptyMap
  /\ \E k \in 1..VecLen(extracted.element.child_span) :
       VecAt(extracted.element.child_span, k).kind = "CloseTag"
  /\ extracted.rest # <<>>

\* parse_element returned for an empty tag with attributes and tokens after
C20_WitnessEmpty ==
  /\ extracted.kind = "Some"
  /\ VecFirst(tail).is_empty
  /\ VecFirst(tail).attributes # EmptyMap
  /\ extracted.rest # <<>>

\* C21 as stated: for a slice that starts with a non-empty OpenTag and ends
\* before the count of open tags is back to zero, parse_element returns
\* None: it neither panics nor returns an Element.
C21_AsStated ==
  extracted.kind \notin {"Idle", "Call"} => extracted.kind = "None"

\* what parse_element does for such a slice: the loop runs to the end with
\* end = len + 1 and `&tail[end..]` panics
C21_PanicsOnCutSlice ==
  extracted.kind \notin {"Idle", "Call"} => extracted.kind = "Panic"

-----------------------------------------------------------------------------
(* Properties of ctx                                                       *)

\* the error a failing value stands for before any layer: the error of an
\* Err, the converted std::io error, the missing-value error of a None
ErrorOf(v) ==
  IF v.tag = "None" THEN Error_new("Unknown", "Missing expected value")
  ELSE IntoError(v)

\* C23 as stated: a failure forwarded through ctx() layers, an error
\* result or a missing optional value alike, is an error with the kind and
\* reason it had and with one frame per layer, in order, after the frames
\* it had.
C23_AsStated ==
  (failure.tag \in {"Err", "IoErr", "None"} /\ layers # <<>>)
    => forwarded = [ErrorOf(failure) EXCEPT
                      !.backtrace = ErrorOf(failure).backtrace \o layers]

\* C23 for error results: every layer appends its frame and keeps kind and
\* reason.
C23_ResultFrames ==
  (failure.tag \in {"Err", "IoErr"} /\ layers # <<>>)
    => forwarded = [ErrorOf(failure) EXCEPT
                      !.backtrace = ErrorOf(failure).backtrace \o layers]

\* C23 for a missing optional value: the layer that meets the None builds
\* the missing-value error without its own frame; only the layers above
\* it leave frames.
C23_OptionDropsFrame ==
  (failure.tag = "None" /\ layers # <<>>)
    => forwarded = [ErrorOf(failure) EXCEPT !.backtrace = Tail(layers)]

\* an error and a missing value have each been forwarded through the
\* layers of a span extraction inside a templates file
C23_WitnessResult ==
  /\ failure.tag = "Err"
  /\ failure.backtrace # <<>>
  /\ layers = <<"at template definition a", "in file t">>

C23_WitnessOption ==
  /\ failure.tag = "None"
  /\ layers = <<"at template definition a", "in file t">>
  /\ forwarded.backtrace = <<"in file t">>

-----------------------------------------------------------------------------
(* Properties of the compile driver                                        *)

MemoryError == compile_error("reached memory limit expanding templates")
RecursionError == compile_error("reached recursion limit expanding templates")

\* some token of v is an OpenTag (empty or not) whose name is a key of tpls
HasUsage(v, tpls) ==
  \E k \in DOMAIN v : v[k].tok.kind = "OpenTag" /\ v[k].tok.name \in DOMAIN tpls

\* C1: whenever compile_source returns Ok, the returned token sequence
\* holds no OpenTag, empty or not, whose name is a key of the store.
C1_OkIsFixedPoint ==
  result.tag = "Ok" => ~HasUsage(source, templates)

\* an Ok reached after at least one expanding pass, with tokens left
C1_Witness ==
  /\ result.tag = "Ok"
  /\ i > 1
  /\ source # <<>>
  /\ DOMAIN templates # {}

\* C2: compile_source terminates: the pass counter stays within
\* 1..RECURSION_LIMIT, every step of a pass either shortens the input that
\* is left to scan or ends the run, a new pass only starts by raising the
\* counter, and the run is never stuck before it has returned.
C2_Terminates ==
  /\ [](i \in 1..RECURSION_LIMIT)
  /\ [](pc = "done" \/ ENABLED Next)
  /\ [](pc = "done" => result.tag \in {"Ok", "Err"})
  /\ [][pc' = "pass" =>
          \/ i' = i /\ VecLen(tail') < VecLen(tail)
          \/ i' = i + 1 /\ tail = <<>>]_vars

\* the run of two mutually recursive blueprints ended by the pass counter
C2_Witness ==
  /\ pc = "done"
  /\ NameB \in DOMAIN templates
  /\ i = RECURSION_LIMIT
  /\ result = RecursionError

RECURSIVE Reaches(_, _, _, _)
\* v holds an OpenTag named n that lies outside the span of every usage of
\* a blueprint of tpls: `inside` counts the usages open before the run
Reaches(v, inside, n, tpls) ==
  IF v = <<>> THEN FALSE
  ELSE LET lm == v[1].tok IN
    IF lm.kind = "OpenTag" /\ lm.name \in DOMAIN tpls
    THEN \/ inside = 0 /\ lm.name = n
         \/ Reaches(Tail(v), IF lm.is_empty THEN inside ELSE inside + v[1].rep,
                    n, tpls)
    ELSE IF lm.kind = "CloseTag" /\ lm.name \in DOMAIN tpls
    THEN Reaches(Tail(v), inside - v[1].rep, n, tpls)
    ELSE Reaches(Tail(v), inside, n, tpls)

\* C3 as stated: with a blueprint whose body invokes itself and a document
\* that invokes it (both invocations read as lying outside every other
\* usage's span, so that a pass reaches them), compile ends with the
\* recursion-limit error after exactly RECURSION_LIMIT passes and with no
\* other outcome.
C3_AsStated ==
  (/\ pc = "done"
   /\ \E n \in DOMAIN templates :
        /\ Reaches(templates[n].child_span, 0, n, templates)
        /\ Reaches(doc, 0, n, templates))
  => (result = RecursionError /\ i = RECURSION_LIMIT)

\* C3 amended: when the self-invocation in the body and the invocation in
\* the document both lie outside every other blueprint usage's span, compile
\* never returns Ok: it ends with the recursion-limit error after exactly
\* RECURSION_LIMIT passes, or earlier or then with the memory-limit error.
C3_SelfInvocationFails ==
  (/\ pc = "done"
   /\ \E n \in DOMAIN templates :
        /\ Reaches(templates[n].child_span, 0, n, templates)
        /\ Reaches(doc, 0, n, templates))
  => \/ result = RecursionError /\ i = RECURSION_LIMIT
     \/ result = MemoryError /\ i <= RECURSION_LIMIT

\* a self-invoking blueprint stopped by the pass counter
C3_Witness ==
  /\ pc = "done"
  /\ NameA \in DOMAIN templates
  /\ Reaches(templates[NameA].child_span, 0, NameA, templates)
  /\ Reaches(doc, 0, NameA, templates)
  /\ result = RecursionError
  /\ i = RECURSION_LIMIT

\* C4 as stated: whenever the working sequence has LEXEME_MEMORY_LIMIT or
\* more tokens after a pass, zero-expansion passes included, compile fails
\* with the memory-limit error instead of returning Ok.
C4_AsStated ==
  (/\ pc = "done"
   /\ VecLen(source) >= LEXEME_MEMORY_LIMIT)
  => result = MemoryError

\* C4 amended: the size guard is checked after every pass that made at least
\* one expansion, and then before the pass counter: such a pass leaving
\* LEXEME_MEMORY_LIMIT or more tokens ends compile with the memory-limit
\* error and never starts another pass; a pass with zero expansions returns
\* Ok without the size check.
C4_GuardAfterExpandingPass ==
  /\ (pc = "done" /\ num_expanded > 0 /\ VecLen(source) >= LEXEME_MEMORY_LIMIT)
       => result = MemoryError
  /\ (pc = "pass" /\ i > 1) => VecLen(source) < LEXEME_MEMORY_LIMIT
  /\ (pc = "done" /\ num_expanded = 0) => result.tag = "Ok"
  /\ result = MemoryError => VecLen(source) >= LEXEME_MEMORY_LIMIT

\* the guard fired on a sequence of exactly LEXEME_MEMORY_LIMIT tokens
C4_Witness ==
  /\ result = MemoryError
  /\ VecLen(source) = LEXEME_MEMORY_LIMIT

\* C5: compile ends with the recursion-limit error exactly when pass number
\* RECURSION_LIMIT has made an expansion and the size guard did not fire,
\* whether or not an invocation is left; it returns Ok exactly when a pass
\* (number RECURSION_LIMIT at the latest) made none.
C5_RecursionLimitExact ==
  pc = "done" =>
    /\ result = RecursionError
         <=> (i = RECURSION_LIMIT /\ num_expanded > 0
              /\ VecLen(source) < LEXEME_MEMORY_LIMIT)
    /\ result.tag = "Ok" <=> num_expanded = 0

\* the 256th pass made the last expansion: no invocation is left, and the
\* run still ends with the recursion-limit error
C5_Witness ==
  /\ result = RecursionError
  /\ ~HasUsage(source, templates)
  /\ doc = Nested(RECURSION_LIMIT)

\* C17: when a pass that made an expansion leaves LEXEME_MEMORY_LIMIT or
\* more tokens, compile_source ends with the memory-limit error, in pass
\* RECURSION_LIMIT as in every earlier pass; the recursion-limit error is
\* only reported for a sequence below LEXEME_MEMORY_LIMIT.
C17_SizeGuardFirst ==
  /\ (pc = "done" /\ num_expanded > 0 /\ VecLen(source) >= LEXEME_MEMORY_LIMIT)
       => (result = MemoryError /\ i <= RECURSION_LIMIT)
  /\ result = RecursionError =>
       (i = RECURSION_LIMIT /\ VecLen(source) < LEXEME_MEMORY_LIMIT)

\* pass RECURSION_LIMIT made an expansion that left LEXEME_MEMORY_LIMIT
\* tokens, and the memory-limit error was reported
C17_Witness ==
  /\ pc = "done"
  /\ i = RECURSION_LIMIT
  /\ num_expanded > 0
  /\ VecLen(source) = LEXEME_MEMORY_LIMIT
  /\ result = MemoryError

\* the size guard fired before pass RECURSION_LIMIT
C17_WitnessEarly ==
  /\ pc = "done"
  /\ 1 < i
  /\ i < RECURSION_LIMIT
  /\ result = MemoryError

RECURSIVE OuterUsages(_, _, _, _)
\* Reads the runs v of a well-formed sequence: `inside` is the number of
\* usages of blueprints of tpls open so far and count the number of usages
\* met while none was open.  The result is both numbers at the end.
OuterUsages(v, inside, count, tpls) ==
  IF v = <<>> THEN [inside |-> inside, count |-> count]
  ELSE LET lm == v[1].tok
           rep == v[1].rep
       IN IF lm.kind = "OpenTag" /\ lm.name \in DOMAIN tpls
          THEN IF lm.is_empty
               THEN OuterUsages(Tail(v), inside,
                                IF inside = 0 THEN count + rep ELSE count, tpls)
               ELSE OuterUsages(Tail(v), inside + rep,
                                IF inside = 0 THEN count + 1 ELSE count, tpls)
          ELSE IF lm.kind = "CloseTag" /\ lm.name \in DOMAIN tpls
          THEN OuterUsages(Tail(v), inside - rep, count, tpls)
          ELSE OuterUsages(Tail(v), inside, count, tpls)

\* the number of tokens of the input of the pass that the loop has consumed
Scanned == VecLen(source) - VecLen(tail)

\* C19: whenever the loop of compilation_pass is about to test its
\* condition, what is left to scan is a suffix of the input of the pass (no
\* emitted token is scanned), the consumed prefix ends outside every
\* invocation's span (each invocation met was consumed with its whole
\* balanced span), and num_expanded is the number of invocation open tags
\* of the consumed prefix that lie in no other invocation's span; when the
\* pass returns, that is their number in the whole input.
C19_PassConsumesSpans ==
  pc = "pass" =>
    /\ Scanned >= 0
    /\ tail = VecDrop(source, Scanned)
    /\ OuterUsages(VecTake(source, Scanned), 0, 0, templates)
         = [inside |-> 0, count |-> num_expanded]

\* a pass is about to return after expanding an invocation that held
\* another invocation inside its span, with an invocation in its output
C19_Witness ==
  /\ pc = "pass"
  /\ tail = <<>>
  /\ num_expanded = 1
  /\ \E k \in 2..Len(source) :
       /\ source[k].tok.kind = "OpenTag"
       /\ source[k].tok.name \in DOMAIN templates
       /\ OuterUsages(SubSeq(source, 1, k - 1), 0, 0, templates).inside > 0
  /\ HasUsage(output, templates)

\* every blueprint body of the store is well-formed
BodiesWellFormed ==
  \A n \in DOMAIN templates : IsWellFormed(templates[n].child_span)

\* C24: for a well-formed document and a store of well-formed bodies, the
\* input of every pass (the document, then the output of the pass before)
\* is well-formed, every invocation the loop of compilation_pass stands at
\* has its balanced span within the slice, so that parse_element returns
\* Some, and compile ends with Ok or one of its two limit errors, never
\* with a failed extraction or an out-of-range slice.
C24_WellFormedPreserved ==
  (IsWellFormed(doc) /\ BodiesWellFormed)
    => /\ IsWellFormed(source)
       /\ (pc = "pass" /\ tail # <<>> /\ IsUsage(VecFirst(tail), templates))
            => /\ parse_element(tail).kind = "Some"
               /\ ScanSpan(tail, 0, 1).how = "break" \/ VecFirst(tail).is_empty
       /\ pc = "done" => \/ result.tag = "Ok"
                         \/ result.tag = "Err" /\ result.kind = "Compilation"

\* a later pass stands at a non-empty invocation that the pass before
\* emitted, with tokens between its tags
C24_Witness ==
  /\ pc = "pass"
  /\ i >= 2
  /\ source # doc
  /\ tail # <<>>
  /\ IsUsage(VecFirst(tail), templates)
  /\ ~VecFirst(tail).is_empty
  /\ parse_element(tail).kind = "Some"
  /\ parse_element(tail).element.child_span # <<>>

\* C25: a sequence compile_source returns with Ok has at most
\* LEXEME_MEMORY_LIMIT (65,535) tokens, and fewer than that if the run
\* expanded an invocation (the document held one, so a pass after the
\* first was made); the size is looked at only when a pass has returned:
\* while tokens are left to scan, a step of the loop of compilation_pass
\* goes on with the pass whatever the size of `output`.
C25_ResultSize ==
  /\ []((pc = "done" /\ result.tag = "Ok")
        => /\ VecLen(source) <= LEXEME_MEMORY_LIMIT
           /\ (i > 1 \/ HasUsage(doc, templates))
                => VecLen(source) < LEXEME_MEMORY_LIMIT)
  /\ [][(pc = "pass" /\ tail # <<>>)
        => /\ pc' = "pass"
           /\ VecLen(output') >= VecLen(output)
           /\ UNCHANGED <<source, i, result>>]_vars

\* compile_source returned Ok with LEXEME_MEMORY_LIMIT - 1 tokens after a
\* pass that expanded an invocation
C25_Witness ==
  /\ pc = "done"
  /\ result.tag = "Ok"
  /\ i = 2
  /\ HasUsage(doc, templates)
  /\ VecLen(source) = LEXEME_MEMORY_LIMIT - 1

\* compile_source returned the LEXEME_MEMORY_LIMIT tokens of a document
\* without invocations
C25_WitnessFull ==
  /\ pc = "done"
  /\ result.tag = "Ok"
  /\ i = 1
  /\ VecLen(source) = LEXEME_MEMORY_LIMIT

\* inside one pass `output` has grown beyond LEXEME_MEMORY_LIMIT tokens
\* and the loop still has tokens to scan
C25_WitnessInsidePass ==
  /\ pc = "pass"
  /\ tail # <<>>
  /\ VecLen(output) > LEXEME_MEMORY_LIMIT

\* C9: for a document with no OpenTag naming a blueprint, the first pass
\* returns the identical sequence with zero expansions, and compile returns
\* exactly the document's tokens after that one pass.
C9_IdempotentOnFixedPoint ==
  (pc = "done" /\ ~HasUsage(doc, templates))
  => /\ result.tag = "Ok"
     /\ i = 1
     /\ num_expanded = 0
     /\ source = doc

\* a document of every token kind compiled against a non-empty store
C9_Witness ==
  /\ pc = "done"
  /\ doc = AllKinds
  /\ NameB \in DOMAIN templates
  /\ result.tag = "Ok"

-----------------------------------------------------------------------------
(* Properties of expand_template                                           *)

\* the tokens a body token stands for in the output: a slot is replaced by
\* the invocation's body, any other token by one token
Width(lm) ==
  IF lm.kind = "Directive" /\ lm.name = CHILDREN
  THEN VecLen(base.child_span) ELSE 1

RECURSIVE WidthUpTo(_)
\* the tokens emitted for the first m tokens of the definition body
WidthUpTo(m) ==
  IF m = 0 THEN 0
  ELSE WidthUpTo(m - 1) + Width(VecAt(template.child_span, m))

\* the position in `expanded` of the token emitted for the m-th body token
OutPos(m) == VecLen(out_before) + WidthUpTo(m - 1) + 1

\* the positions of the OpenTags of the definition body
OpenTagPositions ==
  {m \in 1..VecLen(template.child_span) :
     VecAt(template.child_span, m).kind = "OpenTag"}

\* C6 as stated: an attribute key -> "@v" of a definition OpenTag, with v
\* supplied by the invocation, is emitted as key -> the invocation's value
\* of v.
C6_AsStated ==
  xpc = "ret" =>
    \A m \in OpenTagPositions :
      LET attributes == VecAt(template.child_span, m).attributes
          emitted == VecAt(expanded, OutPos(m)).attributes
      IN \A key \in DOMAIN attributes :
           (/\ HasAtPrefix(attributes[key])
            /\ StripAt(attributes[key]) \in DOMAIN base.attributes)
           => /\ key \in DOMAIN emitted
              /\ emitted[key] = base.attributes[StripAt(attributes[key])]

\* C7 as stated: an attribute key -> "@v" of a definition OpenTag, with v
\* not supplied by the invocation, leaves no attribute `key` in the emitted
\* OpenTag, whatever the other attributes are.
C7_AsStated ==
  xpc = "ret" =>
    \A m \in OpenTagPositions :
      LET attributes == VecAt(template.child_span, m).attributes
          emitted == VecAt(expanded, OutPos(m)).attributes
      IN \A key \in DOMAIN attributes :
           (/\ HasAtPrefix(attributes[key])
            /\ StripAt(attributes[key]) \notin DOMAIN base.attributes)
           => key \notin DOMAIN emitted

\* C18 as stated: an attribute key -> value of a definition OpenTag whose
\* value does not start with '@' is an attribute of the emitted OpenTag with
\* that key and that value, whatever the invocation's attributes and the
\* other attributes of the definition tag are.
C18_AsStated ==
  xpc = "ret" =>
    \A m \in OpenTagPositions :
      LET attributes == VecAt(template.child_span, m).attributes
          emitted == VecAt(expanded, OutPos(m)).attributes
      IN \A key \in DOMAIN attributes :
           ~HasAtPrefix(attributes[key])
           => /\ key \in DOMAIN emitted
              /\ emitted[key] = attributes[key]

\* C18 for the definition tags no variable attribute of which names one of
\* the tag's own literal keys
C18_WithoutKeyClash ==
  xpc = "ret" =>
    \A m \in OpenTagPositions :
      LET attributes == VecAt(template.child_span, m).attributes
          emitted == VecAt(expanded, OutPos(m)).attributes
      IN \A key \in DOMAIN attributes :
           (/\ ~HasAtPrefix(attributes[key])
            /\ \A other \in DOMAIN attributes :
                 HasAtPrefix(attributes[other]) => StripAt(attributes[other]) # key)
           => /\ key \in DOMAIN emitted
              /\ emitted[key] = attributes[key]

\* C26 as stated: the tokens an expansion emits are fixed by the
\* invocation and the definition; the order in which the attributes of a
\* definition tag are visited makes no difference.
C26_AsStated ==
  xpc = "ret" => expand_template(base, template, out_before) = {expanded}

\* no OpenTag of the definition body has a literal attribute whose key is
\* the variable another attribute of the same tag refers to and the
\* invocation supplies
NoKeyClash ==
  \A m \in OpenTagPositions :
    LET attributes == VecAt(template.child_span, m).attributes
    IN \A key \in DOMAIN attributes :
         \A other \in DOMAIN attributes :
           ~(/\ ~HasAtPrefix(attributes[key])
             /\ HasAtPrefix(attributes[other])
             /\ StripAt(attributes[other]) = key
             /\ key \in DOMAIN base.attributes
             /\ base.attributes[key] # attributes[key])

\* C26 for the definitions without such a clash: one outcome whatever the
\* order of iteration; with a clash there are two.
C26_WithoutKeyClash ==
  xpc = "ret" =>
    /\ NoKeyClash => expand_template(base, template, out_before) = {expanded}
    /\ Cardinality(expand_template(base, template, out_before)) <= 2
         ^ Cardinality(OpenTagPositions)

\* the expansion of <img class="lit" id="@class"/> for an invocation with
\* class="w" has returned, and another order of iteration would have
\* emitted another token
C26_WitnessTwoOutcomes ==
  /\ xpc = "ret"
  /\ ~NoKeyClash
  /\ Cardinality(expand_template(base, template, out_before)) = 2

\* the number of slot directives of the definition body
Slots ==
  Cardinality({m \in 1..VecLen(template.child_span) :
                 LET lm == VecAt(template.child_span, m)
                 IN lm.kind = "Directive" /\ lm.name = CHILDREN})

\* C8: the output is what was there before, followed by the definition body
\* read in order, where each slot directive is replaced by the whole body of
\* the invocation, unchanged, every other token that is no OpenTag is
\* copied, and every OpenTag keeps its name and its is_empty flag; its
\* length grows by len(body) - s + s * len(invocation body) for s slots.
C8_SlotSubstitution ==
  xpc = "ret" =>
    /\ VecTake(expanded, VecLen(out_before)) = out_before
    /\ VecLen(expanded) = VecLen(out_before)
         + (VecLen(template.child_span) - Slots)
         + Slots * VecLen(base.child_span)
    /\ \A m \in 1..VecLen(template.child_span) :
         LET lm == VecAt(template.child_span, m) IN
         IF lm.kind = "Directive" /\ lm.name = CHILDREN
         THEN VecSlice(expanded, OutPos(m) - 1,
                       OutPos(m) - 1 + VecLen(base.child_span))
                = base.child_span
         ELSE IF lm.kind = "OpenTag"
         THEN LET e == VecAt(expanded, OutPos(m)) IN
              /\ e.kind = "OpenTag"
              /\ e.name = lm.name
              /\ e.is_empty = lm.is_empty
         ELSE VecAt(expanded, OutPos(m)) = lm

\* a definition with two slots duplicated a two-token invocation body
C8_Witness ==
  /\ xpc = "ret"
  /\ Slots = 2
  /\ VecLen(base.child_span) = 2
  /\ VecLen(expanded) = VecLen(out_before) + 4

=============================================================================
